---- MODULE Spec2Model ----
(***************************************************************************)
(* RelationshipGraphBuilder of the GEDCOM viewer: build() resolves the     *)
(* famc/fams pointers of a family model into a graph of ProfileNodes, and  *)
(* getAncestors / getDescendants walk that graph depth-first under a       *)
(* generation bound and a visited set.                                     *)
(***************************************************************************)
EXTENDS Integers, Sequences, FiniteSets, TLC

VARIABLES
    source,    \* what the family model is made from: the top-level records
               \* of the parsed GEDCOM tree, the profiles and unions handed
               \* to the Geni adapter, or the responses of the Geni API
    data,      \* the family model handed to build: [indis, fams]
    graph,     \* the RelationshipGraph build returned: [individuals, families]
    pc,        \* "source" | "geni" | "loaded" | "built" | "traversing"
               \* | "done" | "overflow" | "family" | "storing" | "stored"
               \* | "converted"
    query,     \* the running query: [kind, start, generations]
    stack,     \* pending traverse(id, depth) calls, the next one first
    visited,   \* the query's visited set
    result,    \* the query's result: an array of profiles, or the four
               \* arrays getImmediateFamily returns
    kept,      \* the answer a caller kept of an earlier query: [query, result]
    store,     \* the family store: [familyData, relationshipGraph,
               \* selectedProfileId, fileName]
    loader,    \* the locals of GeniApiClient.loadFamilyTree
    chart      \* the data TopolaDataAdapter made for the chart: [indis, fams]

vars == <<source, data, graph, pc, query, stack, visited, result,
          kept, store, loader, chart>>

(***************************************************************************)
(* Values.  An optional string (famc, husb, wife) that is absent is the    *)
(* JavaScript undefined; "" is the other falsy string.                     *)
(***************************************************************************)
Undefined == "undefined"

Truthy(s) == s # Undefined /\ s # ""

Profile(id, famc, fams) == [id |-> id, famc |-> famc, fams |-> fams]

Family(id, husb, wife, children) ==
    [id |-> id, husb |-> husb, wife |-> wife, children |-> children]

\* A ProfileNode as the first pass of build creates it: no parents key,
\* empty spouses, children and siblings.
NewNode(profile) ==
    [profile |-> profile, hasParents |-> FALSE, parents |-> <<>>,
     spouses |-> <<>>, children |-> <<>>, siblings |-> <<>>]

EmptyGraph == [individuals |-> <<>>, families |-> <<>>]

\* No GEDCOM tree: the family model was handed over as it is.
NoSource == <<>>

\* The JavaScript null of an object, and of a string.
Null == [null |-> TRUE]

NullId == "null"

\* No answer was kept, no load is running, no chart data was made.
NoAnswer == [query |-> Null, result |-> <<>>, later |-> FALSE]

NoLoad == [pc |-> "idle"]

NoChart == [indis |-> <<>>, fams |-> <<>>]

\* The initial state of useFamilyStore, familyStore.ts lines 28-31.
EmptyStore ==
    [familyData |-> Null, relationshipGraph |-> Null,
     selectedProfileId |-> NullId, fileName |-> NullId]

\* The variables the graph builder and its queries leave alone.
aside == <<kept, store, loader, chart>>

(***************************************************************************)
(* Bounds of the model.                                                    *)
(***************************************************************************)
\* The largest small generation bound a query is asked with.
MaxGen == 2

\* The depth of nested traverse calls the engine's call stack holds; one
\* call more raises RangeError.
MaxCallDepth == 6

\* A generation bound no call depth reaches (a caller asking for "all").
HugeGen == MaxCallDepth + 1

GenChoices == (-1 .. MaxGen) \cup {HugeGen}

(***************************************************************************)
(* Sequence helpers.                                                       *)
(***************************************************************************)
Range(s) == {s[i] : i \in DOMAIN s}

NoDuplicates(s) == \A i, j \in DOMAIN s : s[i] = s[j] => i = j

\* The sequences over S of length at most n.
SeqsUpTo(S, n) == UNION {[1 .. k -> S] : k \in 0 .. n}

(***************************************************************************)
(* build(data), relationshipGraphBuilder.ts lines 10-65.                   *)
(***************************************************************************)
\* new Map(pairs): the keys are the ids; a later entry with the same id
\* replaces an earlier one.
LastIndexOf(records, id) ==
    CHOOSE i \in DOMAIN records :
        /\ records[i].id = id
        /\ \A j \in DOMAIN records : records[j].id = id => j <= i

FamiliesMap(fams) ==
    [fid \in {fams[i].id : i \in DOMAIN fams} |-> fams[LastIndexOf(fams, fid)]]

\* Mutant of lines 15-22: a node made by an earlier build is kept.
FirstPassKeepingNodes(indis) ==
    [pid \in {indis[i].id : i \in DOMAIN indis} |->
        IF pid \in DOMAIN graph.individuals
        THEN graph.individuals[pid]
        ELSE NewNode(indis[LastIndexOf(indis, pid)])]

\* First pass: one fresh node per individual.
FirstPass(indis) ==
    [pid \in {indis[i].id : i \in DOMAIN indis} |->
        NewNode(indis[LastIndexOf(indis, pid)])]

\* families.get(famId) returned a family.
FamilyFound(families, famId) == famId \in DOMAIN families

\* Mutant of line 32: the wife left out of the parent pair.
ParentPairHusbandOnly(family) ==
    SelectSeq(<<IF Truthy(family.husb) THEN family.husb ELSE "">>, Truthy)

\* Mutant of line 32: filter(Boolean) forgotten.
ParentPairUnfiltered(family) ==
    <<IF Truthy(family.husb) THEN family.husb ELSE "",
      IF Truthy(family.wife) THEN family.wife ELSE "">>

\* Mutant of line 32: the wife put before the husband.
ParentPairWifeFirst(family) ==
    SelectSeq(<<IF Truthy(family.wife) THEN family.wife ELSE "",
                IF Truthy(family.husb) THEN family.husb ELSE "">>, Truthy)

\* [family.husb || '', family.wife || ''].filter(Boolean)
ParentPair(family) ==
    SelectSeq(<<IF Truthy(family.husb) THEN family.husb ELSE "",
                IF Truthy(family.wife) THEN family.wife ELSE "">>, Truthy)

\* Mutant of line 37: the profile itself is not left out.
RECURSIVE SiblingEntriesWithSelf(_, _)
SiblingEntriesWithSelf(childIds, selfId) ==
    IF childIds = <<>> THEN <<>>
    ELSE <<[siblingId |-> Head(childIds), relationship |-> "full"]>>
         \o SiblingEntriesWithSelf(Tail(childIds), selfId)

\* The sibling entries of one family for profile: every listed child but
\* the profile itself, in the family's order.
RECURSIVE SiblingEntries(_, _)
SiblingEntries(childIds, selfId) ==
    IF childIds = <<>> THEN <<>>
    ELSE (IF Head(childIds) # selfId
          THEN <<[siblingId |-> Head(childIds), relationship |-> "full"]>>
          ELSE <<>>) \o SiblingEntries(Tail(childIds), selfId)

\* "Add parents", lines 29-44.
AddParents(node, profile, families) ==
    IF Truthy(profile.famc) /\ FamilyFound(families, profile.famc)
    THEN LET family == families[profile.famc]
         IN  [node EXCEPT !.hasParents = TRUE,
                          !.parents = ParentPair(family),
                          !.siblings = node.siblings \o
                              SiblingEntries(family.children, profile.id)]
    ELSE node

\* Mutants of line 52: the two sides exchanged, and the husband whoever
\* the profile is.
SpouseOfSameSide(family, profile) ==
    IF family.husb = profile.id THEN family.husb ELSE family.wife

SpouseOfHusbandAlways(family, profile) == family.husb

\* "Determine spouse", line 52.
SpouseOf(family, profile) ==
    IF family.husb = profile.id THEN family.wife ELSE family.husb

\* Mutant of lines 58-60: the children of a family pushed last first.
RECURSIVE ChildEntriesReversed(_, _)
ChildEntriesReversed(childIds, famId) ==
    IF childIds = <<>> THEN <<>>
    ELSE ChildEntriesReversed(Tail(childIds), famId)
         \o <<[childId |-> Head(childIds), familyId |-> famId]>>

RECURSIVE ChildEntries(_, _)
ChildEntries(childIds, famId) ==
    IF childIds = <<>> THEN <<>>
    ELSE <<[childId |-> Head(childIds), familyId |-> famId]>>
         \o ChildEntries(Tail(childIds), famId)

\* One iteration of profile.fams.forEach, lines 47-61.
AddFamily(node, profile, famId, families) ==
    IF ~FamilyFound(families, famId) THEN node
    ELSE LET family == families[famId]
             spouseId == SpouseOf(family, profile)
         IN  [node EXCEPT
                !.spouses = IF Truthy(spouseId)
                            THEN Append(node.spouses,
                                        [spouseId |-> spouseId, familyId |-> famId])
                            ELSE node.spouses,
                !.children = node.children \o ChildEntries(family.children, famId)]

\* Mutant of line 49: an unknown family id ends the loop over fams instead
\* of skipping the one entry.
RECURSIVE AddFamiliesUntilUnknown(_, _, _, _)
AddFamiliesUntilUnknown(node, profile, famIds, families) ==
    IF famIds = <<>> \/ ~FamilyFound(families, Head(famIds)) THEN node
    ELSE AddFamiliesUntilUnknown(AddFamily(node, profile, Head(famIds), families),
                                 profile, Tail(famIds), families)

\* profile.fams?.forEach(...), lines 47-61.
RECURSIVE AddFamilies(_, _, _, _)
AddFamilies(node, profile, famIds, families) ==
    IF famIds = <<>> THEN node
    ELSE AddFamilies(AddFamily(node, profile, Head(famIds), families),
                     profile, Tail(famIds), families)

\* Second pass over data.indis from index i on: the node under the
\* profile's id gets its parents and siblings, then its spouses and children.
RECURSIVE SecondPass(_, _, _, _)
SecondPass(individuals, indis, families, i) ==
    IF i > Len(indis) THEN individuals
    ELSE LET profile == indis[i]
             node == AddFamilies(AddParents(individuals[profile.id], profile, families),
                                 profile, profile.fams, families)
         IN  SecondPass([individuals EXCEPT ![profile.id] = node],
                        indis, families, i + 1)

build(d) ==
    LET families == FamiliesMap(d.fams)
    IN  [individuals |-> SecondPass(FirstPass(d.indis), d.indis, families, 1),
         families |-> families]

(***************************************************************************)
(* getAncestors and getDescendants, lines 70-94 and 99-123.  The recursive *)
(* closure traverse(id, depth) runs as one step per call: the stack holds  *)
(* the calls still to be made, in the order forEach makes them, so the     *)
(* steps visit in the order of the depth-first recursion.  A call with     *)
(* depth d runs at call depth d + 1.                                       *)
(***************************************************************************)
Call(id, depth) == [id |-> id, depth |-> depth]

RECURSIVE CallsFor(_, _)
CallsFor(ids, depth) ==
    IF ids = <<>> THEN <<>>
    ELSE <<Call(Head(ids), depth)>> \o CallsFor(Tail(ids), depth)

\* Mutants of line 79: the bound one generation late, the bound one
\* generation early, and the visited check forgotten.
AncestorsReturnsLate(id, depth, generations, seen) ==
    depth > generations + 1 \/ id \in seen

AncestorsReturnsAtBound(id, depth, generations, seen) ==
    depth >= generations \/ id \in seen

AncestorsDepthOnly(id, depth, generations, seen) ==
    depth > generations

\* Line 79: if (depth > generations || visited.has(id)) return;
AncestorsReturnsEarly(id, depth, generations, seen) ==
    depth > generations \/ id \in seen

\* Mutant of line 108: the visited check forgotten.
DescendantsDepthOnly(id, depth, generations, seen) ==
    depth > generations

\* Line 108: if (depth > generations || visited.has(id)) return;
DescendantsReturnsEarly(id, depth, generations, seen) ==
    depth > generations \/ id \in seen

\* Lines 87-89: node.parents?.forEach(parentId => { if (parentId) ... })
ParentCalls(node, depth) ==
    IF node.hasParents
    THEN CallsFor(SelectSeq(node.parents, Truthy), depth + 1)
    ELSE <<>>

RECURSIVE ChildIds(_)
ChildIds(entries) ==
    IF entries = <<>> THEN <<>>
    ELSE <<Head(entries).childId>> \o ChildIds(Tail(entries))

\* Lines 116-118: node.children.forEach(({ childId }) => traverse(...))
ChildCalls(node, depth) == CallsFor(ChildIds(node.children), depth + 1)

Queries == {"ancestors", "descendants"}

\* const result = []; const visited = new Set(); traverse(profileId, 0);
StartQuery(kind, profileId, generations) ==
    /\ pc = "built"
    /\ pc' = "traversing"
    /\ query' = [kind |-> kind, start |-> profileId, generations |-> generations]
    /\ stack' = <<Call(profileId, 0)>>
    /\ visited' = {}
    /\ result' = <<>>
    /\ UNCHANGED <<source, data, graph, aside>>

\* The stack after the call on top has run, pushing the calls it makes.
Continue(calls) ==
    /\ stack' = calls \o Tail(stack)
    /\ pc' = IF stack' = <<>> THEN "done" ELSE "traversing"

\* One call of getAncestors' traverse, lines 78-90.
TraverseUp ==
    /\ pc = "traversing"
    /\ query.kind = "ancestors"
    /\ LET id == Head(stack).id
           depth == Head(stack).depth
       IN  IF depth + 1 > MaxCallDepth
           THEN /\ pc' = "overflow"
                /\ UNCHANGED <<stack, visited, result>>
           ELSE IF AncestorsReturnsEarly(id, depth, query.generations, visited)
           THEN /\ Continue(<<>>)
                /\ UNCHANGED <<visited, result>>
           ELSE /\ visited' = visited \cup {id}
                /\ IF id \notin DOMAIN graph.individuals
                   THEN /\ Continue(<<>>)
                        /\ UNCHANGED result
                   ELSE LET node == graph.individuals[id]
                        IN  /\ result' = Append(result, node.profile)
                            /\ Continue(ParentCalls(node, depth))
    /\ UNCHANGED <<source, data, graph, query, aside>>

\* One call of getDescendants' traverse, lines 107-119.
TraverseDown ==
    /\ pc = "traversing"
    /\ query.kind = "descendants"
    /\ LET id == Head(stack).id
           depth == Head(stack).depth
       IN  IF depth + 1 > MaxCallDepth
           THEN /\ pc' = "overflow"
                /\ UNCHANGED <<stack, visited, result>>
           ELSE IF DescendantsReturnsEarly(id, depth, query.generations, visited)
           THEN /\ Continue(<<>>)
                /\ UNCHANGED <<visited, result>>
           ELSE /\ visited' = visited \cup {id}
                /\ IF id \notin DOMAIN graph.individuals
                   THEN /\ Continue(<<>>)
                        /\ UNCHANGED result
                   ELSE LET node == graph.individuals[id]
                        IN  /\ result' = Append(result, node.profile)
                            /\ Continue(ChildCalls(node, depth))
    /\ UNCHANGED <<source, data, graph, query, aside>>

NoQuery == [kind |-> "none", start |-> Undefined, generations |-> 0]

\* const graph = builder.build(data): a first build, or a rebuild from the
\* same model once a query has returned (its locals are gone by then).
BuildGraph ==
    /\ pc \in {"loaded", "built", "done"}
    /\ graph' = build(data)
    /\ pc' = "built"
    /\ query' = NoQuery
    /\ stack' = <<>>
    /\ visited' = {}
    /\ result' = <<>>
    /\ UNCHANGED <<source, data, aside>>

(***************************************************************************)
(* The family models the checks run over.  Ids are unique within indis and *)
(* within fams (the invariant of the normalized model); a pointer may name *)
(* a record that is not there ("I9", "F9") or be absent.                   *)
(***************************************************************************)
MakeData(ids, famc, fams, fids, husb, wife, children) ==
    [indis |-> [i \in DOMAIN ids |-> Profile(ids[i], famc[i], fams[i])],
     fams |-> [j \in DOMAIN fids |->
                  Family(fids[j], husb[j], wife[j], children[j])]]

NoLists(ids) == [i \in DOMAIN ids |-> <<>>]

\* Three individuals and two families whose parent pointers vary: famc may
\* be absent, husb and wife may be absent, equal, dangling, or close a cycle.
ParentModels ==
    LET ids == <<"I1", "I2", "I3">>
        fids == <<"F1", "F2">>
    IN  {MakeData(ids, famc, NoLists(ids), fids, husb, wife, NoLists(fids)) :
            famc \in [DOMAIN ids -> {Undefined, "F1", "F2"}],
            husb \in [DOMAIN fids -> {Undefined, "I1", "I2", "I9"}],
            wife \in [DOMAIN fids -> {Undefined, "I2", "I3"}]}

\* The same individuals with child pointers varying: fams may dangle or
\* list two families, children may repeat, dangle, or close a cycle.
ChildModels ==
    LET ids == <<"I1", "I2", "I3">>
        fids == <<"F1", "F2">>
        none == [i \in DOMAIN ids |-> Undefined]
        nobody == [j \in DOMAIN fids |-> Undefined]
    IN  {MakeData(ids, none, fams, fids, nobody, nobody, children) :
            fams \in [DOMAIN ids -> {<<>>, <<"F1">>, <<"F9", "F2">>}],
            children \in [DOMAIN fids -> SeqsUpTo({"I1", "I2", "I3", "I9"}, 1)
                                            \cup {<<"I2", "I3">>, <<"I3", "I3">>}]}

\* Four individuals in a line of descent, where one is reachable along
\* parent paths (and child paths) of different lengths.
LineageModels ==
    LET ids == <<"I1", "I2", "I3", "I4">>
        fids == <<"F1", "F2", "F3">>
    IN  {MakeData(ids, <<"F1", "F2", "F3", Undefined>>,
                  <<<<>>, <<>>, <<>>, <<>>>>, fids,
                  husb, wife, NoLists(fids)) :
            husb \in [DOMAIN fids -> {"I2", "I3", "I4"}],
            wife \in [DOMAIN fids -> {Undefined, "I3"}]}
    \cup
        {MakeData(ids, <<Undefined, Undefined, Undefined, Undefined>>,
                  <<<<"F1">>, <<"F2">>, <<"F3">>, <<>>>>, fids,
                  <<"I1", "I2", "I3">>, nobody, children) :
            nobody \in {[j \in DOMAIN fids |-> Undefined]},
            children \in [DOMAIN fids -> {<<"I2", "I3">>, <<"I3">>, <<"I4">>}]}

TraversalModels == ParentModels \cup ChildModels \cup LineageModels

Init ==
    /\ source = NoSource
    /\ data \in TraversalModels
    /\ graph = EmptyGraph
    /\ pc = "loaded"
    /\ query = NoQuery
    /\ stack = <<>>
    /\ visited = {}
    /\ result = <<>>
    /\ kept = NoAnswer
    /\ store = EmptyStore
    /\ loader = NoLoad
    /\ chart = NoChart

\* The ids a query is asked about: every individual, and one id that is
\* not in the graph.
StartIds == DOMAIN graph.individuals \cup {"I9"}

Next ==
    \/ BuildGraph
    \/ \E kind \in Queries, profileId \in StartIds, generations \in GenChoices :
          StartQuery(kind, profileId, generations)
    \/ TraverseUp
    \/ TraverseDown

Spec == Init /\ [][Next]_vars

\* A traverse call that has been made runs: the engine is single-threaded
\* and synchronous, nothing else is scheduled in between.
FairSpec == Spec /\ WF_vars(TraverseUp) /\ WF_vars(TraverseDown)

\* Three individuals and two families with every kind of pointer varying
\* together: famc and fams that resolve, dangle or are absent, husb, wife
\* and children that name individuals, nobody, or the same one twice.
BuildModels ==
    LET ids == <<"I1", "I2", "I3">>
        fids == <<"F1", "F2">>
        famsChoices == {<<>>, <<"F1">>, <<"F2", "F1">>, <<"F9", "F2">>}
    IN  {MakeData(ids, <<c1, c2, c3>>, <<s1, s2, <<>>>>, fids,
                  <<h1, h2>>, <<w1, w2>>, <<k1, k2>>) :
            c1 \in {Undefined, "F1", "F2", "F9"}, c2 \in {Undefined, "F1", "F9"},
            c3 \in {Undefined, "F1"},
            s1 \in famsChoices, s2 \in famsChoices,
            h1 \in {Undefined, "I1", "I9"}, h2 \in {Undefined, "I2"},
            w1 \in {Undefined, "I1", "I2"}, w2 \in {Undefined, "I1"},
            k1 \in {<<>>, <<"I3">>, <<"I2", "I3">>, <<"I9", "I1", "I1">>},
            k2 \in {<<>>, <<"I3", "I2">>}}

InitBuild ==
    /\ source = NoSource
    /\ data \in BuildModels
    /\ graph = EmptyGraph
    /\ pc = "loaded"
    /\ query = NoQuery
    /\ stack = <<>>
    /\ visited = {}
    /\ result = <<>>
    /\ kept = NoAnswer
    /\ store = EmptyStore
    /\ loader = NoLoad
    /\ chart = NoChart

\* Graph construction alone: a build, and rebuilds from the same model.
NextBuild == BuildGraph

SpecBuild == InitBuild /\ [][NextBuild]_vars

(***************************************************************************)
(* Reachability in the built graph, stated independently of the traversal. *)
(***************************************************************************)
Individuals == DOMAIN graph.individuals

ResultIds == {result[i].id : i \in DOMAIN result}

\* The ids one parent link (one child entry) away from id.
Links(kind, id) ==
    IF id \notin Individuals THEN {}
    ELSE LET node == graph.individuals[id]
         IN  IF kind = "ancestors"
             THEN (IF node.hasParents THEN Range(node.parents) ELSE {})
             ELSE {node.children[i].childId : i \in DOMAIN node.children}

\* The ids reachable from S by at most k links.
RECURSIVE Within(_, _, _)
Within(kind, S, k) ==
    IF k <= 0 THEN S
    ELSE LET T == S \cup UNION {Links(kind, x) : x \in S}
         IN  IF T = S THEN S ELSE Within(kind, T, k - 1)

Returned(kind) == pc = "done" /\ query.kind = kind

StartInGraph == query.start \in Individuals

\* The family of the model that famc names, when there is one.
ModelFamilyIds == {data.fams[j].id : j \in DOMAIN data.fams}

ModelFamily(fid) == data.fams[CHOOSE j \in DOMAIN data.fams : data.fams[j].id = fid]

(***************************************************************************)
(* Claims.                                                                 *)
(***************************************************************************)
\* C1: every individual within `generations` parent links of the start is in
\* the result of getAncestors.
AncestorsFindAll ==
    (Returned("ancestors") /\ StartInGraph /\ query.generations >= 0) =>
        (Within("ancestors", {query.start}, query.generations) \cap Individuals)
            \subseteq ResultIds

\* C2: every individual within `generations` child entries of the start is
\* in the result of getDescendants.
DescendantsFindAll ==
    (Returned("descendants") /\ StartInGraph /\ query.generations >= 0) =>
        (Within("descendants", {query.start}, query.generations) \cap Individuals)
            \subseteq ResultIds

\* C3: every profile in the result of getAncestors or getDescendants, at any
\* point of the traversal, is within `generations` links of the start.
DepthBound ==
    pc \in {"traversing", "done"} =>
        ResultIds \subseteq Within(query.kind, {query.start}, query.generations)

\* C3 witness: getAncestors returned with bound 1 from a start that has an
\* ancestor further away, which is left out.
DepthBoundWitness ==
    /\ Returned("ancestors") /\ query.generations = 1 /\ Len(result) >= 2
    /\ \E a \in Individuals :
          /\ a \in Within("ancestors", {query.start}, HugeGen)
          /\ a \notin Within("ancestors", {query.start}, 1)
          /\ a \notin ResultIds

\* An individual that is its own ancestor (descendant).
OnCycle(kind, id) ==
    id \in Individuals /\ id \in Within(kind, Links(kind, id), HugeGen)

\* C4: every getAncestors and getDescendants call returns, whatever the
\* graph and the generation bound.
Terminates == [](pc = "traversing" => <>(pc = "done"))

\* C4 witness: getAncestors returned, asked with a bound no depth reaches,
\* from a start that is its own ancestor through another individual.
TerminatesWitness ==
    /\ Returned("ancestors") /\ query.generations = HugeGen
    /\ OnCycle("ancestors", query.start)
    /\ query.start \notin Links("ancestors", query.start)

\* C5: no id occurs twice in the result, and a start that is in the graph,
\* asked with a bound >= 0, is its first element.
VisitedOnce ==
    pc \in {"traversing", "done"} =>
        /\ \A i, j \in DOMAIN result : result[i].id = result[j].id => i = j
        /\ (pc = "done" /\ StartInGraph /\ query.generations >= 0) =>
               (result # <<>> /\ result[1].id = query.start)

\* C5 witness: getDescendants returned from a start that is its own
\* descendant within the bound, with other descendants besides.
VisitedOnceWitness ==
    /\ Returned("descendants") /\ query.generations \in 1 .. MaxGen
    /\ query.start \in Within("descendants", Links("descendants", query.start),
                               query.generations - 1)
    /\ Len(result) >= 2

\* C6: asked with bound 0 about an individual of the graph, both queries
\* return exactly the start profile.
GenerationZero ==
    (pc = "done" /\ StartInGraph /\ query.generations = 0) =>
        result = <<graph.individuals[query.start].profile>>

\* C6 witness: getDescendants returned with bound 0 from a start that has
\* children in the graph.
GenerationZeroWitness ==
    /\ Returned("descendants") /\ query.generations = 0 /\ StartInGraph
    /\ Links("descendants", query.start) \cap Individuals
           \notin {{}, {query.start}}

\* famc of the start names a family of the model.
StartFamcResolves ==
    /\ StartInGraph
    /\ graph.individuals[query.start].profile.famc \in ModelFamilyIds

\* C7: asked with bound 1 about an individual whose famc resolves,
\* getAncestors returns the start and those of the family's husb and wife
\* that are individuals, each once, and nobody else.
OneGeneration ==
    (Returned("ancestors") /\ query.generations = 1 /\ StartFamcResolves) =>
        LET family == ModelFamily(graph.individuals[query.start].profile.famc)
        IN  /\ ResultIds = {query.start}
                   \cup ({family.husb, family.wife} \cap Individuals)
            /\ Len(result) = Cardinality(ResultIds)
            /\ Len(result) <= 3

\* C7 witness: such a call returned the start and two parents while a
\* grandparent who is neither of them stayed out.
OneGenerationWitness ==
    /\ Returned("ancestors") /\ query.generations = 1 /\ StartFamcResolves
    /\ Len(result) = 3
    /\ \E g \in Individuals :
          /\ g \in Within("ancestors", {query.start}, 2)
          /\ g \notin ResultIds


(***************************************************************************)
(* Claims about build.                                                     *)
(***************************************************************************)
ModelIndividualIds == {data.indis[i].id : i \in DOMAIN data.indis}

\* How often x occurs in the sequence s.
Occurrences(s, x) == Cardinality({i \in DOMAIN s : s[i] = x})

\* The ids in a node's four relationship lists.
ListIds(node) ==
    Range(node.parents)
        \cup {node.spouses[i].spouseId : i \in DOMAIN node.spouses}
        \cup {node.children[i].childId : i \in DOMAIN node.children}
        \cup {node.siblings[i].siblingId : i \in DOMAIN node.siblings}

\* The family ids in a node's spouse and child entries.
ListFamilyIds(node) ==
    {node.spouses[i].familyId : i \in DOMAIN node.spouses}
        \cup {node.children[i].familyId : i \in DOMAIN node.children}

\* C8: build completes with a node for every individual; a famc that names
\* no family of the model leaves the node without parent pair and with no
\* siblings; a fams entry that names no family adds no spouse and no child
\* entry, and the pointers that do resolve are all processed.
DanglingFamilyPointersAbsent ==
    pc = "built" =>
        \A i \in DOMAIN data.indis :
            LET p == data.indis[i] IN
            /\ p.id \in Individuals
            /\ LET node == graph.individuals[p.id] IN
               /\ p.famc \notin ModelFamilyIds =>
                      (~node.hasParents /\ node.parents = <<>> /\ node.siblings = <<>>)
               /\ p.famc \in ModelFamilyIds => node.hasParents
               /\ ListFamilyIds(node) \subseteq ModelFamilyIds
               /\ \A f \in ModelFamilyIds :
                      Cardinality({k \in DOMAIN node.children :
                                      node.children[k].familyId = f})
                          = Occurrences(p.fams, f) * Len(ModelFamily(f).children)

\* C8 witness: built from a model in which one individual has a dangling
\* famc and a fams list with a dangling entry before a resolvable one
\* whose children it received.
DanglingFamilyPointersWitness ==
    /\ pc = "built"
    /\ \E i \in DOMAIN data.indis :
          LET p == data.indis[i] IN
          /\ p.famc = "F9" /\ p.fams = <<"F9", "F2">>
          /\ graph.individuals[p.id].children # <<>>

\* C9 as stated: every id in a relationship list is an individual of the
\* graph and every familyId is a key of graph.families.
NoUnresolvedEdges ==
    pc = "built" =>
        \A id \in Individuals :
            /\ ListIds(graph.individuals[id]) \subseteq Individuals
            /\ ListFamilyIds(graph.individuals[id]) \subseteq DOMAIN graph.families

\* The husb, wife and child pointers of the model's families that are set
\* and name no individual of the model.
UnresolvedFamilyPointers ==
    {x \in UNION {{data.fams[j].husb, data.fams[j].wife}
                     \cup Range(data.fams[j].children) : j \in DOMAIN data.fams} :
        Truthy(x) /\ x \notin ModelIndividualIds}

\* C9 amended: every familyId is a key of graph.families, and every id in a
\* relationship list is an individual of the graph or a husb, wife or
\* child pointer of a family that names no individual.
EdgesRepeatFamilyPointers ==
    pc = "built" =>
        \A id \in Individuals :
            /\ ListIds(graph.individuals[id])
                   \subseteq Individuals \cup UnresolvedFamilyPointers
            /\ ListFamilyIds(graph.individuals[id]) \subseteq DOMAIN graph.families

\* C9 witness: built from a model with a husb that names no individual,
\* copied into a child's parent pair and into a wife's spouse entry.
EdgesRepeatWitness ==
    /\ pc = "built"
    /\ \E a, b \in Individuals :
          /\ "I9" \in Range(graph.individuals[a].parents)
          /\ \E k \in DOMAIN graph.individuals[b].spouses :
                graph.individuals[b].spouses[k].spouseId = "I9"

ModelIndividual(id) ==
    data.indis[CHOOSE i \in DOMAIN data.indis : data.indis[i].id = id]

\* The ids of s other than id, in the order of s.
Others(s, id) == LET Other(x) == x # id IN SelectSeq(s, Other)

SiblingList(ids) ==
    [k \in DOMAIN ids |-> [siblingId |-> ids[k], relationship |-> "full"]]

\* A family whose husband, wife and children are individuals that point
\* back at it: husband and wife through fams, every child through famc.
ConsistentFamily(F) ==
    /\ Truthy(F.husb) /\ F.husb \in ModelIndividualIds
    /\ Truthy(F.wife) /\ F.wife \in ModelIndividualIds
    /\ F.id \in Range(ModelIndividual(F.husb).fams)
    /\ F.id \in Range(ModelIndividual(F.wife).fams)
    /\ \A c \in Range(F.children) :
          c \in ModelIndividualIds /\ ModelIndividual(c).famc = F.id

\* C11: for a family F with husband A, wife B and children that all point
\* back at F, A's spouses hold (B, F) and B's hold (A, F), every listed
\* child is a (child, F) entry of A and of B, and every child's siblings
\* are the other children of F, in F's order.
ConsistentFamilyLinked ==
    pc = "built" =>
        \A j \in DOMAIN data.fams :
            LET F == data.fams[j] IN
            ConsistentFamily(F) =>
                LET A == graph.individuals[F.husb]
                    B == graph.individuals[F.wife]
                IN  /\ [spouseId |-> F.wife, familyId |-> F.id] \in Range(A.spouses)
                    /\ [spouseId |-> F.husb, familyId |-> F.id] \in Range(B.spouses)
                    /\ \A c \in Range(F.children) :
                          /\ [childId |-> c, familyId |-> F.id] \in Range(A.children)
                          /\ [childId |-> c, familyId |-> F.id] \in Range(B.children)
                          /\ graph.individuals[c].siblings
                                 = SiblingList(Others(F.children, c))

\* C11 witness: built from a model with a consistent family of two
\* different spouses and two children, each the other's only sibling.
ConsistentFamilyWitness ==
    /\ pc = "built"
    /\ \E j \in DOMAIN data.fams :
          LET F == data.fams[j] IN
          /\ ConsistentFamily(F) /\ F.husb # F.wife /\ Len(F.children) = 2
          /\ Len(graph.individuals[F.children[1]].siblings) = 1
          /\ Len(graph.individuals[F.children[2]].siblings) = 1
          /\ graph.individuals[F.husb].spouses # <<>>

\* The values of a pair that are set, first one first.
Present(first, second) ==
    (IF Truthy(first) THEN <<first>> ELSE <<>>)
        \o (IF Truthy(second) THEN <<second>> ELSE <<>>)

\* C13: when famc resolves to F the node's parent pair is (F.husb, F.wife)
\* with the absent ones removed, husband first, so of zero, one or two ids;
\* with no famc, or a famc that names no family, the node has no parent pair.
ParentPairOrdered ==
    pc = "built" =>
        \A i \in DOMAIN data.indis :
            LET p == data.indis[i]
                node == graph.individuals[p.id]
            IN  IF p.famc \in ModelFamilyIds
                THEN /\ node.hasParents
                     /\ node.parents = Present(ModelFamily(p.famc).husb,
                                               ModelFamily(p.famc).wife)
                     /\ Len(node.parents) \in 0 .. 2
                ELSE ~node.hasParents /\ node.parents = <<>>

\* C13 witness: built from a model in which one individual has a husband
\* and a different wife as parents, one has a family with neither as famc
\* and so an empty pair, and one has a famc that names no family.
ParentPairWitness ==
    /\ pc = "built"
    /\ \E a, b, c \in Individuals :
          /\ Len(graph.individuals[a].parents) = 2
          /\ graph.individuals[a].parents[1] # graph.individuals[a].parents[2]
          /\ graph.individuals[b].hasParents /\ graph.individuals[b].parents = <<>>
          /\ ModelIndividual(c).famc = "F9" /\ ~graph.individuals[c].hasParents

\* p is the husband or the wife of every family of the model its fams names.
SpouseInOwnFamilies(p) ==
    \A k \in DOMAIN p.fams :
        p.fams[k] \in ModelFamilyIds =>
            p.id \in {ModelFamily(p.fams[k]).husb, ModelFamily(p.fams[k]).wife}

\* The spouse entries of the families famIds for pid: per family of the
\* model the other side, when that is set.
RECURSIVE OtherSides(_, _)
OtherSides(pid, famIds) ==
    IF famIds = <<>> THEN <<>>
    ELSE (IF Head(famIds) \in ModelFamilyIds
          THEN LET F == ModelFamily(Head(famIds))
                   other == IF pid = F.husb THEN F.wife ELSE F.husb
               IN  IF Truthy(other)
                   THEN <<[spouseId |-> other, familyId |-> F.id]>> ELSE <<>>
          ELSE <<>>)
         \o OtherSides(pid, Tail(famIds))

SiblingsAreOthers ==
    pc = "built" =>
        \A i \in DOMAIN data.indis :
            LET p == data.indis[i]
                node == graph.individuals[p.id]
            IN  /\ p.famc \in ModelFamilyIds =>
                       node.siblings
                           = SiblingList(Others(ModelFamily(p.famc).children, p.id))
                /\ \A k \in DOMAIN node.siblings :
                       /\ node.siblings[k].siblingId # p.id
                       /\ node.siblings[k].relationship = "full"

\* C15 witness: built from a model in which an individual is listed twice
\* among the children of its famc family, after another child.
SiblingsWitness ==
    /\ pc = "built"
    /\ \E i \in DOMAIN data.indis :
          LET p == data.indis[i] IN
          /\ p.famc \in ModelFamilyIds
          /\ Occurrences(ModelFamily(p.famc).children, p.id) = 2
          /\ Len(graph.individuals[p.id].siblings) = 1

\* The child entries of the families famIds: per family of the model its
\* children in order, each with the family's id.
RECURSIVE ChildrenOfFamilies(_)
ChildrenOfFamilies(famIds) ==
    IF famIds = <<>> THEN <<>>
    ELSE (IF Head(famIds) \in ModelFamilyIds
          THEN LET F == ModelFamily(Head(famIds))
               IN  [k \in DOMAIN F.children |->
                       [childId |-> F.children[k], familyId |-> F.id]]
          ELSE <<>>)
         \o ChildrenOfFamilies(Tail(famIds))

\* C16: the children list is the concatenation, over the families of the
\* model that fams names and in the order of fams, of each family's
\* children in the family's order, each paired with the family's id;
\* nothing is reordered and no repeated child is dropped.
ChildrenConcatenated ==
    pc = "built" =>
        \A i \in DOMAIN data.indis :
            LET p == data.indis[i] IN
            graph.individuals[p.id].children = ChildrenOfFamilies(p.fams)

\* C16 witness: built from a model in which an individual has two families
\* with children, the second of which lists a child twice.
ChildrenConcatenatedWitness ==
    /\ pc = "built"
    /\ \E i \in DOMAIN data.indis :
          LET p == data.indis[i]
              kids == graph.individuals[p.id].children
          IN  /\ Len(p.fams) = 2 /\ Len(kids) = 5
              /\ kids[1].familyId = "F2" /\ kids[3].familyId = "F1"
              /\ kids[4].childId = kids[5].childId
              /\ kids[1].childId # kids[2].childId

(***************************************************************************)
(* getImmediateFamily, relationshipGraphBuilder.ts lines 128-154.          *)
(***************************************************************************)
\* What graph.individuals.get(id)?.profile gives for an id with no node.
UndefinedProfile == [id |-> Undefined]

IsProfile(p) == p # UndefinedProfile

ProfileOrUndefined(g, id) ==
    IF id \in DOMAIN g.individuals THEN g.individuals[id].profile
    ELSE UndefinedProfile

\* Mutant of lines 140-150: filter(Boolean) forgotten.
LookupProfilesUnfiltered(g, ids) ==
    [k \in DOMAIN ids |-> ProfileOrUndefined(g, ids[k])]

\* ids.map(id => graph.individuals.get(id)?.profile).filter(Boolean)
LookupProfiles(g, ids) ==
    SelectSeq([k \in DOMAIN ids |-> ProfileOrUndefined(g, ids[k])], IsProfile)

SpouseIds(entries) == [k \in DOMAIN entries |-> entries[k].spouseId]

SiblingIds(entries) == [k \in DOMAIN entries |-> entries[k].siblingId]

EmptyFamily == [parents |-> <<>>, spouses |-> <<>>, children |-> <<>>,
                siblings |-> <<>>]

getImmediateFamily(profileId, g) ==
    IF profileId \notin DOMAIN g.individuals THEN EmptyFamily
    ELSE LET node == g.individuals[profileId]
         IN  [parents |-> LookupProfiles(g, IF node.hasParents THEN node.parents
                                            ELSE <<>>),
              spouses |-> LookupProfiles(g, SpouseIds(node.spouses)),
              children |-> LookupProfiles(g, ChildIds(node.children)),
              siblings |-> LookupProfiles(g, SiblingIds(node.siblings))]

\* A caller asks for the immediate family of profileId in the built graph.
GetImmediateFamily(profileId) ==
    /\ pc \in {"built", "family"}
    /\ pc' = "family"
    /\ query' = [kind |-> "immediateFamily", start |-> profileId,
                 generations |-> 0]
    /\ result' = getImmediateFamily(profileId, graph)
    /\ UNCHANGED <<source, data, graph, stack, visited, aside>>

\* The models of BuildModels in which the third individual is a child of
\* the first family and the second family is a full one.
FamilyModels ==
    {d \in BuildModels :
        /\ d.indis[3].famc = "F1"
        /\ d.fams[2].husb = "I2" /\ d.fams[2].wife = "I1"
        /\ d.fams[2].children = <<"I3", "I2">>}

InitFamily ==
    /\ source = NoSource
    /\ data \in FamilyModels
    /\ graph = EmptyGraph
    /\ pc = "loaded"
    /\ query = NoQuery
    /\ stack = <<>>
    /\ visited = {}
    /\ result = <<>>
    /\ kept = NoAnswer
    /\ store = EmptyStore
    /\ loader = NoLoad
    /\ chart = NoChart

\* Graph construction followed by one-hop lookups.
NextFamily ==
    \/ BuildGraph
    \/ \E profileId \in StartIds : GetImmediateFamily(profileId)

SpecFamily == InitFamily /\ [][NextFamily]_vars

\* The profiles of those of ids that have a node, in the order of ids.
RECURSIVE KnownProfiles(_)
KnownProfiles(ids) ==
    IF ids = <<>> THEN <<>>
    ELSE (IF Head(ids) \in Individuals
          THEN <<graph.individuals[Head(ids)].profile>> ELSE <<>>)
         \o KnownProfiles(Tail(ids))

\* C12: getImmediateFamily returns four empty lists for a start id with no
\* node, and otherwise the profiles of the node's parents, spouses, children
\* and siblings in list order, leaving out every id that has no node.
ImmediateFamilyLookup ==
    pc = "family" =>
        IF query.start \notin Individuals
        THEN result = [parents |-> <<>>, spouses |-> <<>>, children |-> <<>>,
                       siblings |-> <<>>]
        ELSE LET node == graph.individuals[query.start] IN
             /\ result.parents = KnownProfiles(node.parents)
             /\ result.spouses = KnownProfiles(SpouseIds(node.spouses))
             /\ result.children = KnownProfiles(ChildIds(node.children))
             /\ result.siblings = KnownProfiles(SiblingIds(node.siblings))

\* C12 witness: the lookup returned for a node whose spouse and child lists
\* hold an id without a node next to ids with one, so that the returned
\* lists are shorter than the node's but not empty.
ImmediateFamilyWitness ==
    /\ pc = "family"
    /\ query.start \in Individuals
    /\ LET node == graph.individuals[query.start] IN
       /\ "I9" \in Range(SpouseIds(node.spouses))
       /\ "I9" \in Range(ChildIds(node.children))
       /\ result.spouses # <<>> /\ Len(result.spouses) < Len(node.spouses)
       /\ Len(result.children) >= 2
       /\ Len(result.children) < Len(node.children)

(***************************************************************************)
(* GedcomParser.  parse walks the top-level records of the tree the gedcom *)
(* library returned; a record is [type, xref_id, children] and a child is  *)
(* [type, value, pointer].  A text is a sequence of characters, and a      *)
(* string value that may be absent is [set, text].                         *)
(***************************************************************************)
Unset == [set |-> FALSE, text |-> <<>>]

Str(chars) == [set |-> TRUE, text |-> chars]

Rec(type, xref, children) ==
    [type |-> type, xref_id |-> xref, children |-> children]

\* A child with a scalar value, and one with a pointer.
ValueChild(type, value) == [type |-> type, value |-> value, pointer |-> Undefined]

PointerChild(type, pointer) == [type |-> type, value |-> Unset, pointer |-> pointer]

\* value || '' for an optional string.
OrEmpty(value) == IF value.set THEN value.text ELSE <<>>

\* text || undefined
OrUndefined(chars) == IF chars = <<>> THEN Unset ELSE Str(chars)

IsSpace(c) == c = " "

\* String.prototype.trim
RECURSIVE TrimLeft(_)
TrimLeft(chars) ==
    IF chars # <<>> /\ IsSpace(Head(chars)) THEN TrimLeft(Tail(chars)) ELSE chars

RECURSIVE TrimRight(_)
TrimRight(chars) ==
    IF chars # <<>> /\ IsSpace(chars[Len(chars)])
    THEN TrimRight(SubSeq(chars, 1, Len(chars) - 1)) ELSE chars

Trim(chars) == TrimRight(TrimLeft(chars))

\* The first position from `from` on where chars holds c, 0 when none does.
IndexOf(chars, c, from) ==
    LET K == {k \in from .. Len(chars) : chars[k] = c}
    IN  IF K = {} THEN 0 ELSE CHOOSE k \in K : \A m \in K : k <= m

\* nameString.match(/^([^/]*)\s*\/([^/]+)\//): the first group runs up to
\* the first slash, the second from there to the next slash and must not be
\* empty; without such a pair of slashes there is no match.
NameMatch(chars) ==
    LET i == IndexOf(chars, "/", 1)
        j == IF i = 0 THEN 0 ELSE IndexOf(chars, "/", i + 1)
    IN  IF i > 0 /\ j > i + 1
        THEN [matched |-> TRUE, first |-> SubSeq(chars, 1, i - 1),
              second |-> SubSeq(chars, i + 1, j - 1)]
        ELSE [matched |-> FALSE, first |-> <<>>, second |-> <<>>]

\* Mutant of lines 120-121: the empty trimmed texts kept as they are.
parseNameKeepingEmpty(chars) ==
    LET match == NameMatch(chars)
    IN  IF match.matched
        THEN [firstName |-> Str(Trim(match.first)),
              lastName |-> Str(Trim(match.second))]
        ELSE [firstName |-> Str(chars), lastName |-> Unset]

\* parseName, lines 115-125.
parseName(chars) ==
    LET match == NameMatch(chars)
    IN  IF match.matched
        THEN [firstName |-> OrUndefined(Trim(match.first)),
              lastName |-> OrUndefined(Trim(match.second))]
        ELSE [firstName |-> Str(chars), lastName |-> Unset]

\* toUpperCase of one character.
UpperChar(c) ==
    CASE c = "a" -> "A" [] c = "b" -> "B" [] c = "c" -> "C" [] c = "d" -> "D"
      [] c = "e" -> "E" [] c = "f" -> "F" [] c = "g" -> "G" [] c = "h" -> "H"
      [] c = "i" -> "I" [] c = "j" -> "J" [] c = "k" -> "K" [] c = "l" -> "L"
      [] c = "m" -> "M" [] c = "n" -> "N" [] c = "o" -> "O" [] c = "p" -> "P"
      [] c = "q" -> "Q" [] c = "r" -> "R" [] c = "s" -> "S" [] c = "t" -> "T"
      [] c = "u" -> "U" [] c = "v" -> "V" [] c = "w" -> "W" [] c = "x" -> "X"
      [] c = "y" -> "Y" [] c = "z" -> "Z" [] OTHER -> c

ToUpperCase(chars) == [k \in DOMAIN chars |-> UpperChar(chars[k])]

\* Mutant of line 171: the value compared as it is written.
normalizeSexCaseSensitive(sex) ==
    IF ~sex.set \/ sex.text = <<>> THEN Undefined
    ELSE LET u == sex.text
         IN  IF u = <<"M">> \/ u = <<"M", "A", "L", "E">> THEN "M"
             ELSE IF u = <<"F">> \/ u = <<"F", "E", "M", "A", "L", "E">> THEN "F"
             ELSE IF u = <<"X">> \/ u = <<"O", "T", "H", "E", "R">> THEN "X"
             ELSE "U"

\* normalizeSex, lines 169-176.
normalizeSex(sex) ==
    IF ~sex.set \/ sex.text = <<>> THEN Undefined
    ELSE LET u == ToUpperCase(sex.text)
         IN  IF u = <<"M">> \/ u = <<"M", "A", "L", "E">> THEN "M"
             ELSE IF u = <<"F">> \/ u = <<"F", "E", "M", "A", "L", "E">> THEN "F"
             ELSE IF u = <<"X">> \/ u = <<"O", "T", "H", "E", "R">> THEN "X"
             ELSE "U"

\* A number field of a date: absent, NaN, or a number.
NoNumber == [kind |-> "unset", value |-> 0]

NaN == [kind |-> "NaN", value |-> 0]

Num(n) == [kind |-> "number", value |-> n]

DigitValue(c) ==
    CASE c = "0" -> 0 [] c = "1" -> 1 [] c = "2" -> 2 [] c = "3" -> 3
      [] c = "4" -> 4 [] c = "5" -> 5 [] c = "6" -> 6 [] c = "7" -> 7
      [] c = "8" -> 8 [] c = "9" -> 9 [] OTHER -> -1

\* \d
IsDigit(c) == DigitValue(c) >= 0

\* The digits chars starts with, read as a number after the digits read
\* so far; the empty record of no digits when there is none.
RECURSIVE LeadingNumber(_, _, _)
LeadingNumber(chars, sofar, any) ==
    IF chars # <<>> /\ IsDigit(Head(chars))
    THEN LeadingNumber(Tail(chars), 10 * sofar + DigitValue(Head(chars)), TRUE)
    ELSE IF any THEN Num(sofar) ELSE NaN

\* parseInt(token): leading white space skipped, then the leading digits.
parseInt(chars) == LeadingNumber(TrimLeft(chars), 0, FALSE)

\* chars.split(' '): the texts between single spaces, empty ones included.
RECURSIVE SplitOnSpace(_, _)
SplitOnSpace(chars, token) ==
    IF chars = <<>> THEN <<token>>
    ELSE IF Head(chars) = " "
    THEN <<token>> \o SplitOnSpace(Tail(chars), <<>>)
    ELSE SplitOnSpace(Tail(chars), Append(token, Head(chars)))

\* monthToNumber, lines 197-203.
monthToNumber(month) ==
    LET u == ToUpperCase(month)
    IN  CASE u = <<"J", "A", "N">> -> 1 [] u = <<"F", "E", "B">> -> 2
          [] u = <<"M", "A", "R">> -> 3 [] u = <<"A", "P", "R">> -> 4
          [] u = <<"M", "A", "Y">> -> 5 [] u = <<"J", "U", "N">> -> 6
          [] u = <<"J", "U", "L">> -> 7 [] u = <<"A", "U", "G">> -> 8
          [] u = <<"S", "E", "P">> -> 9 [] u = <<"O", "C", "T">> -> 10
          [] u = <<"N", "O", "V">> -> 11 [] u = <<"D", "E", "C">> -> 12
          [] OTHER -> 0

\* /^\d{4}$/.test(token)
IsFourDigits(token) == Len(token) = 4 /\ \A k \in DOMAIN token : IsDigit(token[k])

NoDate == [set |-> FALSE, text |-> <<>>, day |-> NoNumber, month |-> NoNumber,
           year |-> NoNumber]

\* parseDate, lines 178-194.
parseDate(dateStr) ==
    IF dateStr = <<>> THEN NoDate
    ELSE LET parts == SplitOnSpace(Trim(dateStr), <<>>)
             textOnly == [NoDate EXCEPT !.set = TRUE, !.text = dateStr]
         IN  IF Len(parts) >= 3
             THEN [textOnly EXCEPT !.day = parseInt(parts[1]),
                                   !.month = Num(monthToNumber(parts[2])),
                                   !.year = parseInt(parts[3])]
             ELSE IF Len(parts) = 1 /\ IsFourDigits(parts[1])
             THEN [textOnly EXCEPT !.year = parseInt(parts[1])]
             ELSE textOnly

NoEvent == [set |-> FALSE, confirmed |-> FALSE, date |-> NoDate, place |-> Unset]

\* One step of children.forEach in extractEventFromChildren, lines 132-138.
EventChild(event, child) ==
    IF child.type = "DATE"
    THEN [event EXCEPT !.date = parseDate(OrEmpty(child.value))]
    ELSE IF child.type = "PLAC" THEN [event EXCEPT !.place = child.value]
    ELSE event

RECURSIVE EventChildren(_, _)
EventChildren(event, children) ==
    IF children = <<>> THEN event
    ELSE EventChildren(EventChild(event, Head(children)), Tail(children))

\* extractEventFromChildren, lines 127-141; the tree gives every record a
\* children array.
extractEventFromChildren(children) ==
    EventChildren([NoEvent EXCEPT !.set = TRUE, !.confirmed = TRUE], children)

\* A child that carries children of its own (an event).
ParentChild(type, children) ==
    [type |-> type, value |-> Unset, pointer |-> Undefined, children |-> children]

\* const indi = { id: record.data.xref_id }: the other fields absent.  An
\* absent fams, like an empty one, is the empty list to the graph builder.
NewIndi(xref) ==
    [id |-> xref, firstName |-> Unset, lastName |-> Unset, sex |-> Undefined,
     birth |-> NoEvent, death |-> NoEvent, famc |-> Undefined, fams |-> <<>>]

\* One case of the switch in extractIndividual, lines 54-78.
IndiChild(indi, child) ==
    CASE child.type = "NAME" ->
            LET nameParts == parseName(OrEmpty(child.value))
            IN  [indi EXCEPT !.firstName = nameParts.firstName,
                             !.lastName = nameParts.lastName]
      [] child.type = "SEX" -> [indi EXCEPT !.sex = normalizeSex(child.value)]
      [] child.type = "BIRT" ->
            [indi EXCEPT !.birth = extractEventFromChildren(child.children)]
      [] child.type = "DEAT" ->
            [indi EXCEPT !.death = extractEventFromChildren(child.children)]
      [] child.type = "FAMC" -> [indi EXCEPT !.famc = child.pointer]
      [] child.type = "FAMS" ->
            IF Truthy(child.pointer)
            THEN [indi EXCEPT !.fams = Append(indi.fams, child.pointer)]
            ELSE indi
      [] OTHER -> indi

RECURSIVE IndiChildren(_, _)
IndiChildren(indi, children) ==
    IF children = <<>> THEN indi
    ELSE IndiChildren(IndiChild(indi, Head(children)), Tail(children))

\* extractIndividual, lines 45-82: null for a record without xref_id.
HasId(record) == Truthy(record.xref_id)

extractIndividual(record) == IndiChildren(NewIndi(record.xref_id), record.children)

\* const fam = { id: record.data.xref_id }: the other fields absent.
NewFam(xref) ==
    [id |-> xref, husb |-> Undefined, wife |-> Undefined, children |-> <<>>,
     marriage |-> NoEvent]

\* One case of the switch in extractFamily, lines 93-109.
FamChild(fam, child) ==
    CASE child.type = "HUSB" -> [fam EXCEPT !.husb = child.pointer]
      [] child.type = "WIFE" -> [fam EXCEPT !.wife = child.pointer]
      [] child.type = "CHIL" ->
            IF Truthy(child.pointer)
            THEN [fam EXCEPT !.children = Append(fam.children, child.pointer)]
            ELSE fam
      [] child.type = "MARR" ->
            [fam EXCEPT !.marriage = extractEventFromChildren(child.children)]
      [] OTHER -> fam

RECURSIVE FamChildren(_, _)
FamChildren(fam, children) ==
    IF children = <<>> THEN fam
    ELSE FamChildren(FamChild(fam, Head(children)), Tail(children))

\* extractFamily, lines 84-113.
extractFamily(record) ==
    FamChildren(NewFam(record.xref_id), record.children)

\* Mutant of lines 27 and 30: unshift in place of push.
CollectInFront(model, record) ==
    IF record.type = "INDI" /\ HasId(record)
    THEN [model EXCEPT !.indis = <<extractIndividual(record)>> \o model.indis]
    ELSE IF record.type = "FAM" /\ HasId(record)
    THEN [model EXCEPT !.fams = <<extractFamily(record)>> \o model.fams]
    ELSE model

\* The body of parsed.children.forEach, lines 24-32.
Collect(model, record) ==
    IF record.type = "INDI" /\ HasId(record)
    THEN [model EXCEPT !.indis = Append(model.indis, extractIndividual(record))]
    ELSE IF record.type = "FAM" /\ HasId(record)
    THEN [model EXCEPT !.fams = Append(model.fams, extractFamily(record))]
    ELSE model

RECURSIVE CollectAll(_, _)
CollectAll(model, records) ==
    IF records = <<>> THEN model
    ELSE CollectAll(Collect(model, Head(records)), Tail(records))

\* parse, lines 11-43, from the tree on.
parse(records) == CollectAll([indis |-> <<>>, fams |-> <<>>], records)

\* const data = await parser.parse(content)
Parse ==
    /\ pc = "source"
    /\ data' = parse(source)
    /\ pc' = "loaded"
    /\ UNCHANGED <<source, graph, query, stack, visited, result, aside>>

(***************************************************************************)
(* The trees the parser is run on.                                         *)
(***************************************************************************)
\* How many top-level records a tree of records has at most.
MaxRecords == 3

\* How many characters a name value has at most.
MaxNameLen == 5

\* Top-level records: individuals and families with an id, without one,
\* and with an id another record has too, and a record of another type.
RecordChoices ==
    {Rec("INDI", "@I1@", <<PointerChild("FAMC", "@F1@"),
                           PointerChild("FAMS", "@F1@"),
                           PointerChild("FAMS", Undefined),
                           PointerChild("FAMS", "@F2@")>>),
     Rec("INDI", "@I2@", <<>>),
     Rec("INDI", Undefined, <<PointerChild("FAMS", "@F1@")>>),
     Rec("INDI", "@I1@", <<PointerChild("FAMC", "@F2@")>>),
     Rec("FAM", "@F1@", <<PointerChild("HUSB", "@I1@"),
                          PointerChild("WIFE", "@I2@"),
                          PointerChild("CHIL", "@I2@"),
                          PointerChild("CHIL", Undefined),
                          PointerChild("CHIL", "@I1@")>>),
     Rec("FAM", Undefined, <<PointerChild("HUSB", "@I1@")>>),
     Rec("FAM", "@F1@", <<>>),
     Rec("HEAD", Undefined, <<>>)}

RecordTrees == SeqsUpTo(RecordChoices, MaxRecords)

NameValues ==
    {Str(chars) : chars \in SeqsUpTo({"a", " ", "/"}, MaxNameLen)}
        \cup {Str(<<"J", "o", "h", "n", " ", "/", "D", "o", "e", "/">>),
              Str(<<"J", "a", "n", "e">>), Unset}

SexValues ==
    {Str(chars) : chars \in
        {<<>>, <<"M">>, <<"m">>, <<"F">>, <<"f">>, <<"X">>, <<"x">>,
         <<"U">>, <<"u">>, <<"M", " ">>, <<"N">>,
         <<"O", "T", "H", "E", "R">>, <<"o", "t", "h", "e", "r">>,
         <<"O", "t", "h", "e", "r">>,
         <<"M", "A", "L", "E">>, <<"m", "a", "l", "e">>,
         <<"F", "E", "M", "A", "L", "E">>, <<"F", "e", "m", "a", "l", "e">>,
         <<"U", "N", "K", "N", "O", "W", "N">>}}
        \cup {Unset}

\* How many words a date value is put together from at most.
MaxDateWords == 4

DateWords ==
    {<<"1", "5">>, <<"J", "u", "n">>, <<"D", "E", "C">>, <<"1", "9", "8", "0">>,
     <<"c", "i", "r", "c", "a">>, <<"1", "9", "8">>}

\* The words of ws with one space between neighbours.
RECURSIVE JoinWords(_)
JoinWords(ws) ==
    IF Len(ws) = 0 THEN <<>>
    ELSE IF Len(ws) = 1 THEN ws[1]
    ELSE ws[1] \o <<" ">> \o JoinWords(Tail(ws))

\* Dates of one to MaxDateWords words, and some written with more white
\* space, with nothing, or not at all.
DateValues ==
    {Str(JoinWords(ws)) : ws \in SeqsUpTo(DateWords, MaxDateWords)}
        \cup {Str(<<" ", "1", "9", "8", "0", " ">>),
              Str(<<"1", "5", " ", " ", "J", "U", "N", " ", "1", "9", "8", "0">>),
              Str(<<" ", " ">>), Unset}

\* One individual with a name, with a sex, or with a birth that has a date.
DetailTrees ==
    {<<Rec("INDI", "@I1@", <<ValueChild("NAME", v)>>)>> : v \in NameValues}
        \cup {<<Rec("INDI", "@I1@", <<ValueChild("SEX", v)>>)>> : v \in SexValues}
        \cup {<<Rec("INDI", "@I1@",
                    <<ParentChild("BIRT", <<ValueChild("DATE", v)>>)>>)>> :
                  v \in DateValues}

InitParse ==
    /\ source \in RecordTrees \cup DetailTrees
    /\ data = [indis |-> <<>>, fams |-> <<>>]
    /\ graph = EmptyGraph
    /\ pc = "source"
    /\ query = NoQuery
    /\ stack = <<>>
    /\ visited = {}
    /\ result = <<>>
    /\ kept = NoAnswer
    /\ store = EmptyStore
    /\ loader = NoLoad
    /\ chart = NoChart

NextParse == Parse

SpecParse == InitParse /\ [][NextParse]_vars

(***************************************************************************)
(* Claims about the parser.                                                *)
(***************************************************************************)
Parsed == pc = "loaded" /\ source # NoSource

IsIndi(record) == record.type = "INDI" /\ Truthy(record.xref_id)

IsFam(record) == record.type = "FAM" /\ Truthy(record.xref_id)

\* C17: the individuals (families) of the result are the top-level INDI
\* (FAM) records with a cross-reference id, in the order of the source, and
\* each is what its record gives when parsed alone; records without an id
\* and records of other types add nothing.
SourceOrderKept ==
    Parsed =>
        LET indiRecords == SelectSeq(source, IsIndi)
            famRecords == SelectSeq(source, IsFam)
        IN  /\ Len(data.indis) = Len(indiRecords)
            /\ \A k \in DOMAIN indiRecords :
                  /\ data.indis[k].id = indiRecords[k].xref_id
                  /\ <<data.indis[k]>> = parse(<<indiRecords[k]>>).indis
            /\ Len(data.fams) = Len(famRecords)
            /\ \A k \in DOMAIN famRecords :
                  /\ data.fams[k].id = famRecords[k].xref_id
                  /\ <<data.fams[k]>> = parse(<<famRecords[k]>>).fams

\* C17 witness: parsed a tree with an individual without id between two
\* individuals that have one, the second of which came out second.
SourceOrderWitness ==
    /\ Parsed
    /\ Len(source) = 3
    /\ source[1].type = "INDI" /\ source[1].xref_id = "@I1@"
    /\ source[2].type = "INDI" /\ source[2].xref_id = Undefined
    /\ source[3].type = "INDI" /\ source[3].xref_id = "@I2@"
    /\ Len(data.indis) = 2 /\ data.indis[2].id = "@I2@"
    /\ data.indis[1].fams = <<"@F1@", "@F2@">>

\* C18: no two individuals of the parsed model have the same id, and no
\* two families have.
ParsedIdsUnique ==
    Parsed =>
        /\ NoDuplicates([k \in DOMAIN data.indis |-> data.indis[k].id])
        /\ NoDuplicates([k \in DOMAIN data.fams |-> data.fams[k].id])

\* The NAME value of the tree's only record, when that is all it has.
NameTree ==
    /\ Len(source) = 1 /\ Len(source[1].children) = 1
    /\ source[1].children[1].type = "NAME"

NameValue == OrEmpty(source[1].children[1].value)

NoSlash(chars, from, to) == \A k \in from .. to : chars[k] # "/"

\* chars has a slash-delimited segment between positions i and j.
SegmentAt(chars, i, j) ==
    /\ i \in DOMAIN chars /\ j \in DOMAIN chars /\ j > i + 1
    /\ chars[i] = "/" /\ chars[j] = "/" /\ NoSlash(chars, i + 1, j - 1)

\* The first slash-delimited segment of chars starts at i and ends at j.
FirstSegmentAt(chars, i, j) ==
    /\ SegmentAt(chars, i, j)
    /\ \A m, n \in DOMAIN chars : SegmentAt(chars, m, n) => i <= m

\* C19 as stated: a name with a slash-delimited segment gives the trimmed
\* text before the segment as given name and the trimmed segment as
\* surname; any other name gives the whole value as given name and no
\* surname.
NameSplitAsStated ==
    (Parsed /\ NameTree) =>
        LET v == NameValue
            p == data.indis[1]
        IN  IF \E i, j \in DOMAIN v : SegmentAt(v, i, j)
            THEN \A i, j \in DOMAIN v :
                    FirstSegmentAt(v, i, j) =>
                        /\ p.firstName = Str(Trim(SubSeq(v, 1, i - 1)))
                        /\ p.lastName = Str(Trim(SubSeq(v, i + 1, j - 1)))
            ELSE p.firstName = Str(v) /\ p.lastName = Unset

\* C19 amended: when the first slash of the name opens a non-empty segment
\* that a second slash closes, the text before it, trimmed, is the given
\* name and the segment, trimmed, the surname, each unset when nothing is
\* left of it; every other name, one with a slash before its first segment
\* too, gives the whole value untrimmed as given name and no surname.
NameSplitAtFirstSlash ==
    (Parsed /\ NameTree) =>
        LET v == NameValue
            p == data.indis[1]
        IN  IF \E i, j \in DOMAIN v : SegmentAt(v, i, j) /\ NoSlash(v, 1, i - 1)
            THEN \A i, j \in DOMAIN v :
                    (SegmentAt(v, i, j) /\ NoSlash(v, 1, i - 1)) =>
                        LET given == Trim(SubSeq(v, 1, i - 1))
                            surname == Trim(SubSeq(v, i + 1, j - 1))
                        IN  /\ p.firstName = IF given = <<>> THEN Unset
                                             ELSE Str(given)
                            /\ p.lastName = IF surname = <<>> THEN Unset
                                            ELSE Str(surname)
            ELSE p.firstName = Str(v) /\ p.lastName = Unset

\* C19 witness: parsed the name "John /Doe/" into John and Doe.
NameSplitWitness ==
    /\ Parsed /\ NameTree
    /\ NameValue = <<"J", "o", "h", "n", " ", "/", "D", "o", "e", "/">>
    /\ data.indis[1].firstName = Str(<<"J", "o", "h", "n">>)
    /\ data.indis[1].lastName = Str(<<"D", "o", "e">>)

\* The SEX value of the tree's only record, when that is all it has.
SexTree ==
    /\ Len(source) = 1 /\ Len(source[1].children) = 1
    /\ source[1].children[1].type = "SEX"

SexValue == source[1].children[1].value

UpperSex == ToUpperCase(OrEmpty(SexValue))

\* C20 as stated: compared without regard to case, M gives "M", F gives
\* "F", X and OTHER give "X", every other non-empty value gives "U", and an
\* absent or empty value leaves sex unset.
SexAsStated ==
    (Parsed /\ SexTree) =>
        data.indis[1].sex =
            IF OrEmpty(SexValue) = <<>> THEN Undefined
            ELSE IF UpperSex = <<"M">> THEN "M"
            ELSE IF UpperSex = <<"F">> THEN "F"
            ELSE IF UpperSex \in {<<"X">>, <<"O", "T", "H", "E", "R">>} THEN "X"
            ELSE "U"

\* C20 amended: compared without regard to case, M and MALE give "M", F
\* and FEMALE give "F", X and OTHER give "X", every other non-empty value
\* gives "U", and an absent or empty value leaves sex unset.
SexWithWords ==
    (Parsed /\ SexTree) =>
        data.indis[1].sex =
            IF OrEmpty(SexValue) = <<>> THEN Undefined
            ELSE IF UpperSex \in {<<"M">>, <<"M", "A", "L", "E">>} THEN "M"
            ELSE IF UpperSex \in {<<"F">>, <<"F", "E", "M", "A", "L", "E">>} THEN "F"
            ELSE IF UpperSex \in {<<"X">>, <<"O", "T", "H", "E", "R">>} THEN "X"
            ELSE "U"

\* C20 witness: parsed the sex value "Female" into "F".
SexWithWordsWitness ==
    /\ Parsed /\ SexTree
    /\ OrEmpty(SexValue) = <<"F", "e", "m", "a", "l", "e">>
    /\ data.indis[1].sex = "F"

\* The DATE value of the birth of the tree's only record, when that is all
\* the record has, and the date parsed from it.
DateTree ==
    /\ Len(source) = 1 /\ Len(source[1].children) = 1
    /\ source[1].children[1].type = "BIRT"

DateValue == OrEmpty(source[1].children[1].children[1].value)

ParsedDate == data.indis[1].birth.date

\* The words of chars: the texts between white space, none of them empty.
DateTokens(chars) ==
    LET NotEmpty(t) == t # <<>> IN SelectSeq(SplitOnSpace(chars, <<>>), NotEmpty)

\* C21: a non-empty date of exactly three words has the number of the
\* first as day, the month of the second (0 when it is none of the twelve
\* abbreviations) and the number of the third as year; a single word of
\* four digits gives the year alone; every other date has no day, month or
\* year; the text is kept as written.
DateAsStated ==
    (Parsed /\ DateTree /\ DateValue # <<>>) =>
        LET words == DateTokens(DateValue)
            date == ParsedDate
        IN  /\ date.set /\ date.text = DateValue
            /\ IF Len(words) = 3
               THEN /\ date.day = parseInt(words[1])
                    /\ date.month = Num(monthToNumber(words[2]))
                    /\ date.year = parseInt(words[3])
               ELSE IF Len(words) = 1 /\ IsFourDigits(words[1])
               THEN /\ date.day = NoNumber /\ date.month = NoNumber
                    /\ date.year = parseInt(words[1])
               ELSE /\ date.day = NoNumber /\ date.month = NoNumber
                    /\ date.year = NoNumber

(***************************************************************************)
(* Queries asked one after the other of the same graph,                    *)
(* relationshipGraphBuilder.ts lines 70-154.                               *)
(***************************************************************************)
AllQueries == Queries \cup {"immediateFamily"}

\* Mutant of lines 76 and 105: the visited set outlives the call.
AskSharingVisited(kind, profileId, generations) ==
    /\ pc \in {"built", "done", "family"}
    /\ IF kind = "immediateFamily"
       THEN /\ pc' = "family"
            /\ query' = [kind |-> kind, start |-> profileId, generations |-> 0]
            /\ result' = getImmediateFamily(profileId, graph)
            /\ UNCHANGED <<stack, visited>>
       ELSE /\ pc' = "traversing"
            /\ query' = [kind |-> kind, start |-> profileId,
                         generations |-> generations]
            /\ stack' = <<Call(profileId, 0)>>
            /\ visited' = visited
            /\ result' = <<>>
    /\ kept' = IF kept = NoAnswer THEN kept ELSE [kept EXCEPT !.later = TRUE]
    /\ UNCHANGED <<source, data, graph, store, loader, chart>>

\* A call of getAncestors, getDescendants or getImmediateFamily on the
\* graph as it is, after build or after an earlier query has returned.  A
\* traversal starts with a result array and a visited set of its own.
Ask(kind, profileId, generations) ==
    /\ pc \in {"built", "done", "family"}
    /\ IF kind = "immediateFamily"
       THEN /\ pc' = "family"
            /\ query' = [kind |-> kind, start |-> profileId, generations |-> 0]
            /\ result' = getImmediateFamily(profileId, graph)
            /\ UNCHANGED <<stack, visited>>
       ELSE /\ pc' = "traversing"
            /\ query' = [kind |-> kind, start |-> profileId,
                         generations |-> generations]
            /\ stack' = <<Call(profileId, 0)>>
            /\ visited' = {}
            /\ result' = <<>>
    /\ kept' = IF kept = NoAnswer THEN kept ELSE [kept EXCEPT !.later = TRUE]
    /\ UNCHANGED <<source, data, graph, store, loader, chart>>

\* The caller keeps the answer of the query that has returned, the first
\* time it does.
Keep ==
    /\ pc \in {"done", "family"}
    /\ kept = NoAnswer
    /\ kept' = [query |-> query, result |-> result, later |-> FALSE]
    /\ UNCHANGED <<source, data, graph, pc, query, stack, visited, result,
                   store, loader, chart>>

\* Three individuals in two families, with a child that is in no model, a
\* husband that is in none, and a parent that is its own grandchild.
QueryModels ==
    LET ids == <<"I1", "I2", "I3">>
        fids == <<"F1", "F2">>
    IN  {MakeData(ids, <<"F1", c2, Undefined>>, <<s1, <<"F1">>, <<"F1">>>>, fids,
                  <<"I2", h2>>, <<"I3", Undefined>>, <<k1, <<"I2">>>>) :
            c2 \in {Undefined, "F2"}, s1 \in {<<>>, <<"F2">>},
            h2 \in {"I1", "I9"}, k1 \in {<<"I1">>, <<"I1", "I9">>}}

InitQueries ==
    /\ source = NoSource
    /\ data \in QueryModels
    /\ graph = EmptyGraph
    /\ pc = "loaded"
    /\ query = NoQuery
    /\ stack = <<>>
    /\ visited = {}
    /\ result = <<>>
    /\ kept = NoAnswer
    /\ store = EmptyStore
    /\ loader = NoLoad
    /\ chart = NoChart

NextQueries ==
    \/ BuildGraph
    \/ \E kind \in AllQueries, profileId \in {"I1", "I2", "I9"},
          generations \in {1, MaxGen} : Ask(kind, profileId, generations)
    \/ TraverseUp
    \/ TraverseDown
    \/ Keep

SpecQueries == InitQueries /\ [][NextQueries]_vars

\* C22: whatever queries have been asked, the graph is still the one build
\* returned for the model, and a query that returns after the same query
\* was asked and answered before returns the answer it gave then.
QueriesDoNotMutate ==
    /\ pc \in {"built", "traversing", "done", "family", "overflow"}
           => graph = build(data)
    /\ (pc \in {"done", "family"} /\ kept.later /\ kept.query = query)
           => kept.result = result

\* C22 witness: an ancestor query over a cycle of parents has returned
\* three profiles, the answer the same query gave when it was asked before
\* and kept.
QueriesDoNotMutateWitness ==
    /\ pc = "done" /\ kept.later /\ kept.query = query
    /\ query.kind = "ancestors" /\ Len(result) = 3
    /\ kept.result = result

(***************************************************************************)
(* TopolaDataAdapter, topolaDataAdapter.ts.  The profiles and families it  *)
(* is handed have the fields of the parser's; none has images.             *)
(***************************************************************************)
\* `@unknown-husb-${fam.id}@` and `@unknown-wife-${fam.id}@`
UnknownId(side, famId) == "@unknown-" \o side \o "-" \o famId \o "@"

\* The individuals pushed at lines 18-23 and 29-34.
UnknownHusband(famId) ==
    [id |-> UnknownId("husb", famId),
     firstName |-> Str(<<"U", "n", "k", "n", "o", "w", "n">>),
     lastName |-> Str(<<"H", "u", "s", "b", "a", "n", "d">>), sex |-> "M"]

UnknownWife(famId) ==
    [id |-> UnknownId("wife", famId),
     firstName |-> Str(<<"U", "n", "k", "n", "o", "w", "n">>),
     lastName |-> Str(<<"W", "i", "f", "e">>), sex |-> "F"]

\* Mutant of lines 27-36: the placeholder wife is not pushed.
UnknownsOfHusbandOnly(fam) ==
    IF ~Truthy(fam.husb) THEN <<UnknownHusband(fam.id)>> ELSE <<>>

\* What one family adds to unknownIndividuals, lines 16-36.
UnknownsOf(fam) ==
    (IF ~Truthy(fam.husb) THEN <<UnknownHusband(fam.id)>> ELSE <<>>)
        \o (IF ~Truthy(fam.wife) THEN <<UnknownWife(fam.id)>> ELSE <<>>)

RECURSIVE UnknownIndividuals(_)
UnknownIndividuals(fams) ==
    IF fams = <<>> THEN <<>>
    ELSE UnknownsOf(Head(fams)) \o UnknownIndividuals(Tail(fams))

\* const processed = { ...fam } with the missing spouses filled in.
ProcessFamily(fam) ==
    [fam EXCEPT !.husb = IF ~Truthy(fam.husb) THEN UnknownId("husb", fam.id)
                         ELSE fam.husb,
                !.wife = IF ~Truthy(fam.wife) THEN UnknownId("wife", fam.id)
                         ELSE fam.wife]

\* A number that is neither 0 nor NaN nor absent.
TruthyNumber(n) == n.kind = "number" /\ n.value # 0

NoTopolaEvent == [set |-> FALSE, hasDate |-> FALSE, year |-> NoNumber,
                  month |-> NoNumber, day |-> NoNumber, place |-> Unset]

\* convertEvent, lines 110-129.
convertEvent(event) ==
    LET date == event.date
        dated == date.set /\ TruthyNumber(date.year)
    IN  [set |-> TRUE,
         hasDate |-> dated,
         year |-> IF dated THEN date.year ELSE NoNumber,
         month |-> IF dated /\ TruthyNumber(date.month) THEN date.month
                   ELSE NoNumber,
         day |-> IF dated /\ TruthyNumber(date.day) THEN date.day ELSE NoNumber,
         place |-> IF event.place.set /\ event.place.text # <<>>
                   THEN event.place ELSE Unset]

\* A name that is set and not empty.
TruthyText(t) == t.set /\ t.text # <<>>

\* convertIndividual, lines 50-86.
convertIndividual(profile) ==
    LET named == TruthyText(profile.firstName) \/ TruthyText(profile.lastName)
    IN  [id |-> profile.id,
         sex |-> IF Truthy(profile.sex) THEN profile.sex ELSE "U",
         firstName |-> IF ~named THEN Unset
                       ELSE Str(OrEmpty(profile.firstName)),
         lastName |-> IF ~named THEN Unset ELSE Str(OrEmpty(profile.lastName)),
         famc |-> IF Truthy(profile.famc) THEN profile.famc ELSE Undefined,
         fams |-> profile.fams,
         birth |-> IF profile.birth.set THEN convertEvent(profile.birth)
                   ELSE NoTopolaEvent,
         death |-> IF profile.death.set THEN convertEvent(profile.death)
                   ELSE NoTopolaEvent]

\* convertFamily, lines 88-108.
convertFamily(family) ==
    [id |-> family.id,
     husb |-> IF Truthy(family.husb) THEN family.husb ELSE Undefined,
     wife |-> IF Truthy(family.wife) THEN family.wife ELSE Undefined,
     children |-> family.children,
     marriage |-> IF family.marriage.set THEN convertEvent(family.marriage)
                  ELSE NoTopolaEvent]

\* convertToTopolaFormat, lines 10-48.
convertToTopolaFormat(d) ==
    [indis |-> [i \in DOMAIN d.indis |-> convertIndividual(d.indis[i])]
                   \o UnknownIndividuals(d.fams),
     fams |-> [j \in DOMAIN d.fams |-> convertFamily(ProcessFamily(d.fams[j]))]]

\* const topolaData = adapter.convertToTopolaFormat(gedcomData): the data
\* is read, the families are copied before they are filled in.
ConvertToTopolaFormat ==
    /\ pc = "loaded"
    /\ chart' = convertToTopolaFormat(data)
    /\ pc' = "converted"
    /\ UNCHANGED <<source, data, graph, query, stack, visited, result,
                   kept, store, loader>>

Person(id, sex, firstName, famc, fams) ==
    [NewIndi(id) EXCEPT !.sex = sex, !.firstName = firstName, !.famc = famc,
                        !.fams = fams]

Fam(id, husb, wife, children, marriage) ==
    [id |-> id, husb |-> husb, wife |-> wife, children |-> children,
     marriage |-> marriage]

\* A marriage with this year, in no known month, on a day that is no number.
MarriedIn(year) ==
    [set |-> TRUE, confirmed |-> TRUE,
     date |-> [set |-> TRUE, text |-> <<"x">>, day |-> NaN, month |-> Num(0),
               year |-> year],
     place |-> Unset]

\* Two individuals and two families; a husband or wife may be absent, the
\* empty string, an individual, or an id of no individual.
ChartModels ==
    {[indis |-> <<Person("I1", sx, fn, Undefined, <<"F1">>),
                  Person("I2", Undefined, Unset, c2, <<>>)>>,
      fams |-> <<Fam("F1", h1, w1, k1, m1), Fam("F2", h2, w2, <<>>, NoEvent)>>] :
        sx \in {Undefined, "M"}, fn \in {Unset, Str(<<"A">>)},
        c2 \in {Undefined, "F1"},
        h1 \in {Undefined, "", "I1"}, w1 \in {Undefined, "I2"},
        k1 \in {<<>>, <<"I2">>},
        m1 \in {NoEvent, MarriedIn(Num(1980)), MarriedIn(NaN)},
        h2 \in {Undefined, "I1"}, w2 \in {Undefined, "I9"}}

InitChart ==
    /\ source = NoSource
    /\ data \in ChartModels
    /\ graph = EmptyGraph
    /\ pc = "loaded"
    /\ query = NoQuery
    /\ stack = <<>>
    /\ visited = {}
    /\ result = <<>>
    /\ kept = NoAnswer
    /\ store = EmptyStore
    /\ loader = NoLoad
    /\ chart = NoChart

NextChart == ConvertToTopolaFormat

SpecChart == InitChart /\ [][NextChart]_vars

ChartIds == [k \in DOMAIN chart.indis |-> chart.indis[k].id]

\* The husband (wife) of the j-th output family is the input's when the
\* input has one, and otherwise the placeholder id, which one output
\* individual has.
SpouseFilledIn(given, made, placeholder) ==
    IF Truthy(given) THEN made = given
    ELSE made = placeholder /\ Occurrences(ChartIds, placeholder) = 1

\* C29: in the chart data every family has husband and wife set, the
\* input's or a placeholder id that exactly one output individual has; the
\* input individuals and the families are kept in order; the input data is
\* what it was.
PlaceholdersForMissingSpouses ==
    /\ [](pc = "converted" =>
            /\ Len(chart.fams) = Len(data.fams)
            /\ \A j \in DOMAIN data.fams :
                  /\ chart.fams[j].id = data.fams[j].id
                  /\ Truthy(chart.fams[j].husb) /\ Truthy(chart.fams[j].wife)
                  /\ SpouseFilledIn(data.fams[j].husb, chart.fams[j].husb,
                                    UnknownId("husb", data.fams[j].id))
                  /\ SpouseFilledIn(data.fams[j].wife, chart.fams[j].wife,
                                    UnknownId("wife", data.fams[j].id))
            /\ Len(chart.indis) >= Len(data.indis)
            /\ \A i \in DOMAIN data.indis : chart.indis[i].id = data.indis[i].id)
    /\ [][pc' = "converted" => data' = data]_vars

\* C29 witness: chart data made from a model whose first family has an
\* empty husband and no wife and whose second has a husband only: three
\* placeholders follow the two individuals.
PlaceholdersWitness ==
    /\ pc = "converted"
    /\ data.fams[1].husb = "" /\ data.fams[1].wife = Undefined
    /\ data.fams[2].husb = "I1" /\ data.fams[2].wife = Undefined
    /\ Len(chart.indis) = 5
    /\ chart.indis[5].id = "@unknown-wife-F2@"
    /\ chart.fams[1].husb = "@unknown-husb-F1@"

(***************************************************************************)
(* GeniDataAdapter, geniDataAdapter.ts.  A Geni profile is its id, gender  *)
(* and union ids; a union is its id, partners, profile_1, profile_2 and    *)
(* children.  An absent list is the empty sequence.                        *)
(***************************************************************************)
GeniProfile(id, gender, unions) ==
    [id |-> id, gender |-> gender, unions |-> unions]

GeniUnion(id, partners, profile_1, profile_2, children) ==
    [id |-> id, partners |-> partners, profile_1 |-> profile_1,
     profile_2 |-> profile_2, children |-> children]

\* `@${id}@`
At(id) == "@" \o id \o "@"

\* convertGender, lines 118-121.
convertGender(gender) ==
    IF ~Truthy(gender) THEN Undefined
    ELSE IF gender = "male" THEN "M" ELSE "F"

\* convertProfile, lines 28-50: no famc is ever written.
convertProfile(geniProfile) ==
    [id |-> At(geniProfile.id),
     sex |-> convertGender(geniProfile.gender),
     famc |-> Undefined,
     fams |-> [k \in DOMAIN geniProfile.unions |-> At(geniProfile.unions[k])]]

\* profiles.find(p => p.id === id) found nothing.
NoGeniProfile == [undefined |-> TRUE]

\* profiles.find(p => p.id === id)
Find(profiles, id) ==
    LET hits == {i \in DOMAIN profiles : profiles[i].id = id}
    IN  IF hits = {} THEN NoGeniProfile
        ELSE profiles[CHOOSE i \in hits : \A k \in hits : i <= k]

\* partner?.gender
GenderOf(partner) ==
    IF partner = NoGeniProfile THEN Undefined ELSE partner.gender

NoPartners == [husb |-> Undefined, wife |-> Undefined]

\* if (partner?.gender === 'male') husb = ... else if (... 'female') wife = ...
ByGender(pair, partner) ==
    CASE GenderOf(partner) = "male" -> [pair EXCEPT !.husb = At(partner.id)]
      [] GenderOf(partner) = "female" -> [pair EXCEPT !.wife = At(partner.id)]
      [] OTHER -> pair

\* Lines 60-103: husb and wife of a union.
PartnersOf(geniUnion, profiles) ==
    IF Len(geniUnion.partners) >= 2
    THEN LET partner1 == Find(profiles, geniUnion.partners[1])
             partner2 == Find(profiles, geniUnion.partners[2])
             pair == ByGender(ByGender(NoPartners, partner1), partner2)
         IN  IF ~Truthy(pair.husb) /\ ~Truthy(pair.wife)
             THEN [husb |-> IF partner1 # NoGeniProfile THEN At(partner1.id)
                            ELSE Undefined,
                   wife |-> IF partner2 # NoGeniProfile THEN At(partner2.id)
                            ELSE Undefined]
             ELSE pair
    ELSE IF Truthy(geniUnion.profile_1) \/ Truthy(geniUnion.profile_2)
    THEN LET partner1 == Find(profiles, geniUnion.profile_1)
             partner2 == Find(profiles, geniUnion.profile_2)
             pair == ByGender(ByGender(NoPartners, partner1), partner2)
         IN  IF ~Truthy(pair.husb) /\ ~Truthy(pair.wife)
             THEN [husb |-> IF Truthy(geniUnion.profile_1)
                            THEN At(geniUnion.profile_1) ELSE Undefined,
                   wife |-> IF Truthy(geniUnion.profile_2)
                            THEN At(geniUnion.profile_2) ELSE Undefined]
             ELSE pair
    ELSE NoPartners

\* convertUnion, lines 55-113.
convertUnion(geniUnion, profiles) ==
    LET pair == PartnersOf(geniUnion, profiles)
    IN  [id |-> At(geniUnion.id), husb |-> pair.husb, wife |-> pair.wife,
         children |-> [k \in DOMAIN geniUnion.children |->
                          At(geniUnion.children[k])]]

\* convertToFamilyData, lines 11-23.
convertToFamilyData(profiles, unions) ==
    [indis |-> [i \in DOMAIN profiles |-> convertProfile(profiles[i])],
     fams |-> [j \in DOMAIN unions |-> convertUnion(unions[j], profiles)]]

\* const familyData = adapter.convertToFamilyData(profiles, unions)
ConvertToFamilyData ==
    /\ pc = "geni"
    /\ data' = convertToFamilyData(source.profiles, source.unions)
    /\ pc' = "loaded"
    /\ UNCHANGED <<source, graph, query, stack, visited, result, aside>>

Genders == {Undefined, "male", "female"}

\* The partners of the one union, given either way.
PartnerChoices ==
    {[partners |-> <<"1", "2">>, profile_1 |-> Undefined, profile_2 |-> Undefined],
     [partners |-> <<>>, profile_1 |-> "1", profile_2 |-> "2"],
     [partners |-> <<>>, profile_1 |-> "1", profile_2 |-> Undefined],
     [partners |-> <<"1", "9">>, profile_1 |-> Undefined, profile_2 |-> Undefined],
     [partners |-> <<>>, profile_1 |-> Undefined, profile_2 |-> Undefined]}

\* Four profiles, the first two partners of one union, the others its
\* children or not; genders of every kind.
GeniInputs ==
    {[profiles |-> <<GeniProfile("1", g1, <<"u">>), GeniProfile("2", g2, u2),
                     GeniProfile("3", g3, <<>>), GeniProfile("4", Undefined, <<>>)>>,
      unions |-> <<GeniUnion("u", pt.partners, pt.profile_1, pt.profile_2, ch)>>] :
        g1 \in Genders, g2 \in Genders, g3 \in {Undefined, "female"},
        u2 \in {<<>>, <<"u">>}, pt \in PartnerChoices,
        ch \in {<<>>, <<"3">>, <<"3", "4">>, <<"3", "8">>}}

InitGeni ==
    /\ source \in GeniInputs
    /\ data = MakeData(<<>>, <<>>, <<>>, <<>>, <<>>, <<>>, <<>>)
    /\ graph = EmptyGraph
    /\ pc = "geni"
    /\ query = NoQuery
    /\ stack = <<>>
    /\ visited = {}
    /\ result = <<>>
    /\ kept = NoAnswer
    /\ store = EmptyStore
    /\ loader = NoLoad
    /\ chart = NoChart

NextGeni == ConvertToFamilyData \/ BuildGraph

SpecGeni == InitGeni /\ [][NextGeni]_vars

GeniIds == {source.profiles[i].id : i \in DOMAIN source.profiles}

\* The two partners of a union, whichever way the union gives them.
UnionPartners(u) ==
    IF Len(u.partners) >= 2 THEN <<u.partners[1], u.partners[2]>>
    ELSE <<u.profile_1, u.profile_2>>

\* The union has two distinct partners and both are profiles.
TwoKnownPartners(u) ==
    /\ UnionPartners(u)[1] # UnionPartners(u)[2]
    /\ UnionPartners(u)[1] \in GeniIds
    /\ UnionPartners(u)[2] \in GeniIds

\* C28: the family converted from a union of two distinct known partners
\* has one of them as husb and the other as wife, whatever their genders.
NoPartnerLost ==
    pc \in {"loaded", "built"} =>
        \A j \in DOMAIN source.unions :
            TwoKnownPartners(source.unions[j]) =>
                LET u == source.unions[j]
                    fam == data.fams[j]
                IN  \/ /\ fam.husb = At(UnionPartners(u)[1])
                       /\ fam.wife = At(UnionPartners(u)[2])
                    \/ /\ fam.husb = At(UnionPartners(u)[2])
                       /\ fam.wife = At(UnionPartners(u)[1])

\* The children of a union and its partners are all profiles.
UnionAmongProfiles(u) ==
    /\ TwoKnownPartners(u)
    /\ Range(u.children) \subseteq GeniIds

\* C24: in the graph built from the adapter's output every child of a union
\* whose partners and children are profiles has the union's partners as
\* its parent pair and the union's other children as its siblings.
GeniChildrenLinked ==
    pc = "built" =>
        \A j \in DOMAIN source.unions :
            UnionAmongProfiles(source.unions[j]) =>
                LET u == source.unions[j]
                IN  \A k \in DOMAIN u.children :
                        LET node == graph.individuals[At(u.children[k])]
                        IN  /\ node.hasParents
                            /\ Range(node.parents) =
                                   {At(UnionPartners(u)[1]), At(UnionPartners(u)[2])}
                            /\ {node.siblings[n].siblingId :
                                    n \in DOMAIN node.siblings} =
                                   {At(c) : c \in Range(u.children) \ {u.children[k]}}

(***************************************************************************)
(* Spouse entries and partnerships.                                        *)
(***************************************************************************)
\* C27: every spouse entry (s, F) on the node of p has p as husband or wife
\* of F, s as the other partner of F, and s different from p.
SpousesArePartners ==
    pc = "built" =>
        \A i \in DOMAIN data.indis :
            LET p == data.indis[i]
                node == graph.individuals[p.id]
            IN  \A k \in DOMAIN node.spouses :
                    LET s == node.spouses[k].spouseId
                        F == graph.families[node.spouses[k].familyId]
                    IN  /\ s # p.id
                        /\ \/ F.husb = p.id /\ F.wife = s
                           \/ F.wife = p.id /\ F.husb = s

(***************************************************************************)
(* The family store, familyStore.ts (gedcomStore.ts is the same store with  *)
(* gedcomData and loadGedcom), and the handlers that load into it.  Every   *)
(* set() is one change of the store; data and graph are the handler's       *)
(* locals, source is the file or the Geni answer it was given.              *)
(***************************************************************************)
\* Mutant of lines 39-41: the first individual is selected on every load.
SelectionOnLoadAlwaysFirst(selectedProfileId, d) ==
    IF Len(d.indis) > 0 THEN d.indis[1].id ELSE selectedProfileId

\* if (!state.selectedProfileId && data.indis.length > 0)
\*     state.selectedProfileId = data.indis[0].id
SelectionOnLoad(selectedProfileId, d) ==
    IF (selectedProfileId = NullId \/ selectedProfileId = "") /\ Len(d.indis) > 0
    THEN d.indis[1].id
    ELSE selectedProfileId

\* loadFamilyTree / loadGedcom, lines 34-43.
loadFamilyTree(state, d, fileName) ==
    [state EXCEPT !.familyData = d,
                  !.fileName = IF fileName = "" THEN NullId ELSE fileName,
                  !.selectedProfileId = SelectionOnLoad(state.selectedProfileId, d)]

\* setRelationshipGraph, lines 45-49.
setRelationshipGraph(state, g) == [state EXCEPT !.relationshipGraph = g]

\* selectProfile, lines 51-55.
selectProfile(state, id) == [state EXCEPT !.selectedProfileId = id]

\* clearData, lines 57-64.
clearData(state) ==
    [state EXCEPT !.familyData = Null, !.relationshipGraph = Null,
                  !.selectedProfileId = NullId, !.fileName = NullId]

\* getProfile, lines 67-70: the first individual with the id, or undefined.
getProfile(state, id) ==
    IF state.familyData = Null THEN UndefinedProfile
    ELSE LET indis == state.familyData.indis
             hits == {i \in DOMAIN indis : indis[i].id = id}
         IN  IF hits = {} THEN UndefinedProfile
             ELSE indis[CHOOSE i \in hits : \A k \in hits : i <= k]

\* getSelectedProfile, lines 82-86.
getSelectedProfile(state) ==
    IF state.selectedProfileId = NullId \/ state.selectedProfileId = ""
    THEN UndefinedProfile
    ELSE getProfile(state, state.selectedProfileId)

\* No handler is between its build and its setRelationshipGraph.
Idle == pc \in {"idle", "stored"}

\* const data = await parser.parseFile(file)
ParseFile(file) ==
    /\ Idle
    /\ source' = file
    /\ data' = parse(file.trees)
    /\ pc' = "loaded"
    /\ UNCHANGED <<graph, query, stack, visited, result, aside>>

\* const { profiles, unions } = await client.loadFamilyTree(...);
\* const familyData = adapter.convertToFamilyData(profiles, unions)
GeniLoad(answer) ==
    /\ Idle
    /\ source' = answer
    /\ data' = convertToFamilyData(answer.profiles, answer.unions)
    /\ pc' = "loaded"
    /\ UNCHANGED <<graph, query, stack, visited, result, aside>>

\* loadFamilyTree(data, file.name)
LoadFamilyTree ==
    /\ pc = "built"
    /\ store' = loadFamilyTree(store, data, source.name)
    /\ pc' = "storing"
    /\ UNCHANGED <<source, data, graph, query, stack, visited, result,
                   kept, loader, chart>>

\* setRelationshipGraph(graph)
SetRelationshipGraph ==
    /\ pc = "storing"
    /\ store' = setRelationshipGraph(store, graph)
    /\ pc' = "stored"
    /\ UNCHANGED <<source, data, graph, query, stack, visited, result,
                   kept, loader, chart>>

\* The ids of the individuals the chart is given: those of the data and
\* the placeholders of convertToTopolaFormat.
TopolaIds(d) ==
    LET unknown == UnknownIndividuals(d.fams)
    IN  {d.indis[i].id : i \in DOMAIN d.indis}
            \cup {unknown[k].id : k \in DOMAIN unknown}

\* The ids a click can select: a profile of the list, part_005 line 61, or
\* an individual of the chart, part_003 lines 208-213.
ClickableIds ==
    IF store.familyData = Null THEN {} ELSE TopolaIds(store.familyData)

SelectProfile(id) ==
    /\ Idle
    /\ id \in ClickableIds
    /\ store' = selectProfile(store, id)
    /\ UNCHANGED <<source, data, graph, pc, query, stack, visited, result,
                   kept, loader, chart>>

ClearData ==
    /\ Idle
    /\ store' = clearData(store)
    /\ UNCHANGED <<source, data, graph, pc, query, stack, visited, result,
                   kept, loader, chart>>

\* Three files: a couple without a wife record, one other individual, and
\* a file without individuals.
StoreFiles ==
    {[name |-> "a.ged",
      trees |-> <<Rec("INDI", "@I1@", <<PointerChild("FAMS", "@F1@")>>),
                  Rec("INDI", "@I2@", <<PointerChild("FAMC", "@F1@")>>),
                  Rec("FAM", "@F1@", <<PointerChild("HUSB", "@I1@"),
                                       PointerChild("CHIL", "@I2@")>>)>>],
     [name |-> "b.ged", trees |-> <<Rec("INDI", "@I3@", <<>>)>>],
     [name |-> "c.ged", trees |-> <<Rec("HEAD", Undefined, <<>>)>>]}

\* One answer of the Geni load.
StoreGeniAnswers ==
    {[name |-> "Geni: g",
      profiles |-> <<GeniProfile("1", "male", <<"u">>),
                     GeniProfile("2", "female", <<"u">>)>>,
      unions |-> <<GeniUnion("u", <<"1", "2">>, Undefined, Undefined, <<>>)>>]}

AllClickableIds ==
    UNION {TopolaIds(parse(f.trees)) : f \in StoreFiles}
        \cup UNION {TopolaIds(convertToFamilyData(a.profiles, a.unions)) :
                        a \in StoreGeniAnswers}

InitStore ==
    /\ source = NoSource
    /\ data = [indis |-> <<>>, fams |-> <<>>]
    /\ graph = EmptyGraph
    /\ pc = "idle"
    /\ query = NoQuery
    /\ stack = <<>>
    /\ visited = {}
    /\ result = <<>>
    /\ kept = NoAnswer
    /\ store = EmptyStore
    /\ loader = NoLoad
    /\ chart = NoChart

NextStore ==
    \/ \E file \in StoreFiles : ParseFile(file)
    \/ \E answer \in StoreGeniAnswers : GeniLoad(answer)
    \/ BuildGraph
    \/ LoadFamilyTree
    \/ SetRelationshipGraph
    \/ \E id \in AllClickableIds : SelectProfile(id)
    \/ ClearData

SpecStore == InitStore /\ [][NextStore]_vars

\* C23: whenever familyData and relationshipGraph are both set in the
\* store, relationshipGraph is the graph built from that familyData.
GraphOfCurrentModel ==
    (store.familyData # Null /\ store.relationshipGraph # Null) =>
        store.relationshipGraph = build(store.familyData)

\* C25: a load keeps a selection that is set, selects the first individual
\* when none is set and the data has individuals, and leaves it null when
\* the data has none; clearData empties all four fields.
SelectionOnLoadKept ==
    [][/\ (pc = "built" /\ pc' = "storing") =>
              /\ store'.familyData = data
              /\ store'.selectedProfileId =
                    IF store.selectedProfileId # NullId
                    THEN store.selectedProfileId
                    ELSE IF data.indis # <<>> THEN data.indis[1].id
                    ELSE NullId
       /\ (store.familyData # Null /\ store'.familyData = Null) =>
              store' = EmptyStore]_vars

\* C25 witness: a load has just stored data whose first individual is not
\* the selected one: the selection of before the load was kept.
SelectionOnLoadWitness ==
    /\ pc = "storing"
    /\ store.familyData = data /\ data.indis # <<>>
    /\ store.selectedProfileId # NullId
    /\ store.selectedProfileId # data.indis[1].id

\* C26: whenever data is loaded and a profile is selected, the selected id
\* is the id of an individual of the loaded data, and getSelectedProfile
\* returns a profile.
ValidSelection ==
    (store.familyData # Null /\ store.selectedProfileId # NullId) =>
        /\ store.selectedProfileId \in
               {store.familyData.indis[i].id : i \in DOMAIN store.familyData.indis}
        /\ getSelectedProfile(store) # UndefinedProfile

(***************************************************************************)
(* GeniApiClient.loadFamilyTree, geniApiClient.ts lines 207-334.  source   *)
(* is the API: the ids getProfile answers for and, per id, the answer of   *)
(* getImmediateFamily or its failure.  Profiles and unions are their ids;  *)
(* a Map is the sequence of its keys in insertion order.  loader.trace     *)
(* records what the loop did with every entry it shifted, loader.stored    *)
(* every loadedProfiles.set and loader.pushed every queue.push.            *)
(***************************************************************************)
\* The greatest number of generations a load is asked for.
MaxGenerations == 3

\* getImmediateFamily rejected.
Failed == [failed |-> TRUE]

ImmediateFamily(parents, children, spouses, siblings, unions) ==
    [parents |-> parents, children |-> children, spouses |-> spouses,
     siblings |-> siblings, unions |-> unions]

NewLoad(generations, includeAncestors, includeDescendants) ==
    [pc |-> "start", generations |-> generations,
     includeAncestors |-> includeAncestors,
     includeDescendants |-> includeDescendants,
     focus |-> Undefined,
     loadedProfiles |-> <<>>, loadedUnions |-> <<>>, queue |-> <<>>,
     stored |-> <<>>, pushed |-> <<>>, trace |-> <<>>]

\* Mutant of the tests !loadedProfiles.has(id): every id is stored, and
\* pushed where the loop pushes.
StoreEachAgain(l, ids, push, generation, direction) ==
    IF ids = <<>> THEN l
    ELSE [l EXCEPT
            !.loadedProfiles = @ \o ids,
            !.stored = @ \o ids,
            !.queue = IF push
                      THEN @ \o [k \in DOMAIN ids |->
                                    [id |-> ids[k], generation |-> generation,
                                     direction |-> direction]]
                      ELSE @,
            !.pushed = IF push THEN @ \o ids ELSE @]

\* for (const p of list) if (!loadedProfiles.has(p.id)) { set; push }
RECURSIVE StoreEach(_, _, _, _, _)
StoreEach(l, ids, push, generation, direction) ==
    IF ids = <<>> THEN l
    ELSE LET id == Head(ids)
             next ==
                 IF id \in Range(l.loadedProfiles) THEN l
                 ELSE [l EXCEPT
                         !.loadedProfiles = Append(@, id),
                         !.stored = Append(@, id),
                         !.queue = IF push
                                   THEN Append(@, [id |-> id,
                                                   generation |-> generation,
                                                   direction |-> direction])
                                   ELSE @,
                         !.pushed = IF push THEN Append(@, id) ELSE @]
         IN  StoreEach(next, Tail(ids), push, generation, direction)

\* loadedUnions.set(union.id, union) for every union of the list.
RECURSIVE SetUnions(_, _)
SetUnions(unions, ids) ==
    IF ids = <<>> THEN unions
    ELSE SetUnions(IF Head(ids) \in Range(unions) THEN unions
                   ELSE Append(unions, Head(ids)), Tail(ids))

\* Lines 232-276: the immediate family of the focus profile.
Seed(l, family) ==
    LET withParents ==
            IF l.includeAncestors
            THEN StoreEach(l, family.parents, l.generations > 1, 1, "up") ELSE l
        withChildren ==
            IF l.includeDescendants
            THEN StoreEach(withParents, family.children, l.generations > 1, 1, "down")
            ELSE withParents
        withSpouses == StoreEach(withChildren, family.spouses, FALSE, 0, "none")
        withSiblings == StoreEach(withSpouses, family.siblings, FALSE, 0, "none")
    IN  [withSiblings EXCEPT !.loadedUnions = SetUnions(@, family.unions)]

\* Lines 288-320: the family of a queue entry.
Expand(l, entry, family) ==
    LET withParents ==
            IF entry.direction = "up" /\ l.includeAncestors
            THEN StoreEach(l, family.parents, TRUE, entry.generation + 1, "up")
            ELSE l
        withChildren ==
            IF entry.direction = "down" /\ l.includeDescendants
            THEN StoreEach(withParents, family.children, TRUE,
                           entry.generation + 1, "down")
            ELSE withParents
        withSpouses == StoreEach(withChildren, family.spouses, FALSE, 0, "none")
    IN  [withSpouses EXCEPT !.loadedUnions = SetUnions(@, family.unions)]

Outcome(entry, outcome) ==
    [id |-> entry.id, generation |-> entry.generation, outcome |-> outcome]

\* loadFamilyTree is called: lines 215-223.
StartLoad(generations, includeAncestors, includeDescendants) ==
    /\ loader = NoLoad
    /\ loader' = NewLoad(generations, includeAncestors, includeDescendants)
    /\ UNCHANGED <<source, data, graph, pc, query, stack, visited, result,
                   kept, store, chart>>

\* const startProfile = await this.getProfile(startProfileId), lines 226-227.
GetStartProfile(startProfileId) ==
    /\ loader.pc = "start"
    /\ loader' =
          IF startProfileId \in source.profiles
          THEN [loader EXCEPT !.pc = "seed", !.focus = startProfileId,
                              !.loadedProfiles = <<startProfileId>>,
                              !.stored = <<startProfileId>>]
          ELSE [loader EXCEPT !.pc = "threw"]
    /\ UNCHANGED <<source, data, graph, pc, query, stack, visited, result,
                   kept, store, chart>>

\* const immediateFamily = await this.getImmediateFamily(startProfileId)
\* and the seeding of the queue, lines 230-276.
SeedQueue ==
    /\ loader.pc = "seed"
    /\ loader' =
          IF source.family[loader.focus] = Failed
          THEN [loader EXCEPT !.pc = "threw"]
          ELSE [Seed(loader, source.family[loader.focus]) EXCEPT !.pc = "loop"]
    /\ UNCHANGED <<source, data, graph, pc, query, stack, visited, result,
                   kept, store, chart>>

\* One turn of while (queue.length > 0), lines 279-325.
ExpandNext ==
    /\ loader.pc = "loop"
    /\ loader.queue # <<>>
    /\ LET entry == Head(loader.queue)
           shifted == [loader EXCEPT !.queue = Tail(@)]
       IN  loader' =
              IF entry.generation >= loader.generations
              THEN [shifted EXCEPT !.trace = Append(@, Outcome(entry, "skipped"))]
              ELSE IF source.family[entry.id] = Failed
              THEN [shifted EXCEPT !.trace = Append(@, Outcome(entry, "failed"))]
              ELSE [Expand(shifted, entry, source.family[entry.id])
                        EXCEPT !.trace = Append(@, Outcome(entry, "expanded"))]
    /\ UNCHANGED <<source, data, graph, pc, query, stack, visited, result,
                   kept, store, chart>>

\* return { profiles, unions }, lines 328-331.
ReturnLoaded ==
    /\ loader.pc = "loop"
    /\ loader.queue = <<>>
    /\ loader' = [loader EXCEPT !.pc = "returned"]
    /\ UNCHANGED <<source, data, graph, pc, query, stack, visited, result,
                   kept, store, chart>>

GeniProfileIds == {"1", "2", "3", "4"}

\* What getImmediateFamily may answer for an id whose neighbours in a
\* ring of four are before and after: failure, nothing, a parent, two
\* parents one of them listed twice, parents and children that are each
\* other's, or a family of every kind.
FamilyAnswers(id, before, after) ==
    {Failed,
     ImmediateFamily(<<>>, <<>>, <<>>, <<>>, <<>>),
     ImmediateFamily(<<after>>, <<>>, <<>>, <<>>, <<"u">>),
     ImmediateFamily(<<after, before, after>>, <<>>, <<id>>, <<>>, <<"u", "u">>),
     ImmediateFamily(<<after>>, <<before>>, <<>>, <<>>, <<"v">>),
     ImmediateFamily(<<before>>, <<after, id>>, <<after>>, <<before>>, <<"u", "v">>)}

\* The API: getProfile answers for the four ids and not for "9".
ApiAnswers ==
    {[profiles |-> GeniProfileIds,
      family |-> [id \in GeniProfileIds |->
                     CASE id = "1" -> f1 [] id = "2" -> f2
                       [] id = "3" -> f3 [] OTHER -> f4]] :
        f1 \in FamilyAnswers("1", "4", "2"), f2 \in FamilyAnswers("2", "1", "3"),
        f3 \in FamilyAnswers("3", "2", "4"),
        f4 \in {Failed, ImmediateFamily(<<"1">>, <<"3">>, <<>>, <<>>, <<>>)}}

InitLoad ==
    /\ source \in ApiAnswers
    /\ data = [indis |-> <<>>, fams |-> <<>>]
    /\ graph = EmptyGraph
    /\ pc = "idle"
    /\ query = NoQuery
    /\ stack = <<>>
    /\ visited = {}
    /\ result = <<>>
    /\ kept = NoAnswer
    /\ store = EmptyStore
    /\ loader = NoLoad
    /\ chart = NoChart

NextLoad ==
    \/ \E generations \in 1 .. MaxGenerations, up \in BOOLEAN, down \in BOOLEAN :
          StartLoad(generations, up, down)
    \/ \E startProfileId \in {"1", "9"} : GetStartProfile(startProfileId)
    \/ SeedQueue
    \/ ExpandNext
    \/ ReturnLoaded

SpecLoad == InitLoad /\ [][NextLoad]_vars

\* Every await of the load is a request that is answered or fails, and the
\* code between two awaits runs to the next one: a load that can take a
\* step takes it.
LoadFairness == WF_vars(NextLoad)

FairSpecLoad == SpecLoad /\ LoadFairness

LoadEnded == loader.pc \in {"returned", "threw"}

\* No id is stored twice or pushed twice; no entry of a generation at or
\* past the limit is expanded; only the two requests for the focus profile
\* end the load by throwing, and a load that returned has called
\* getImmediateFamily for, or skipped, every entry it pushed.
LoadBounded ==
    loader # NoLoad =>
        /\ NoDuplicates(loader.stored)
        /\ NoDuplicates(loader.pushed)
        /\ Range(loader.pushed) \subseteq Range(loader.stored)
        /\ \A k \in DOMAIN loader.trace :
              /\ loader.trace[k].outcome = "expanded" =>
                    /\ loader.trace[k].generation < loader.generations
                    /\ source.family[loader.trace[k].id] # Failed
              /\ loader.trace[k].outcome = "failed" =>
                    source.family[loader.trace[k].id] = Failed
              /\ loader.trace[k].outcome = "skipped" =>
                    loader.trace[k].generation >= loader.generations
        /\ loader.pc = "threw" => loader.trace = <<>>
        /\ loader.pc = "returned" =>
              [k \in DOMAIN loader.trace |-> loader.trace[k].id] = loader.pushed

\* C30: every load ends, by returning or by a failure of one of the two
\* requests for the focus profile; each id is stored and pushed at most
\* once, no entry with generation >= generations is expanded, and a failed
\* request for a queued profile skips that profile and the load goes on.
LoadTerminates == <>LoadEnded /\ []LoadBounded

\* C30 witness: a load returned over answers in which the parents form a
\* cycle through the focus profile, after a request for a queued profile
\* failed and a later entry of the queue was expanded.
LoadTerminatesWitness ==
    /\ loader # NoLoad /\ loader.pc = "returned"
    /\ source.family["1"] # Failed /\ source.family["2"] # Failed
    /\ "2" \in Range(source.family["1"].parents)
    /\ "1" \in Range(source.family["2"].parents)
    /\ \E i, j \in DOMAIN loader.trace :
          /\ i < j
          /\ loader.trace[i].outcome = "failed"
          /\ loader.trace[j].outcome = "expanded"

====
